---- MODULE Spec2Model ----
(***************************************************************************)
(* Model of the resumable event-dispatch engine of surflux-sdk:            *)
(*   flavor "A" = SurfluxPackageEventsClient   (src/src/cli.ts 350-620)    *)
(*   flavor "B" = SurfluxDeepbookEventsClient  (src/unnamed/part_002)      *)
(* together with the cursor helpers of src/src/utils.ts.                   *)
(*                                                                         *)
(* Strings that the code inspects character by character (event types,    *)
(* subscription patterns, cached cursor strings) are tuples of one-letter *)
(* strings.  `undefined` numbers are Undefined, a null handle is Null.     *)
(***************************************************************************)
EXTENDS Integers, Sequences, FiniteSets

VARIABLES
  flavor,             \* which client class this instance is
  env,                \* which transport implementation the module picked
  configFrom,         \* config.fromTimestampMs as given to the constructor
  fromTimestampMs,    \* this.fromTimestampMs
  latestTimestampMs,  \* this.latestTimestampMs
  cache,              \* the value held by the cache under this.cacheKey
  eventSource,        \* this.eventSource: Null or the index of a transport
  isConnected,        \* this.isConnected
  subscriptions,      \* this.subscriptions, in Map insertion order
  conns,              \* one record per transport created by connect()
  waiters,            \* one record per waitFor() call: its closure and promise
  dispatchedMax,      \* history: highest timestamp handed to the dispatch stage
  sessionMax,         \* history: the same, since the last transport creation
  deliveredMax,       \* history: highest timestamp passed to some handler
  priorMax,           \* history: deliveredMax when the last transport was created
  cacheGetCalls,      \* history: number of cache.get calls so far
  tasks,              \* the host's message tasks: queued, begun and finished
  lastOp              \* history: what the last operation did

vars == <<flavor, env, configFrom, fromTimestampMs, latestTimestampMs, cache,
          eventSource, isConnected, subscriptions, conns, waiters,
          dispatchedMax, sessionMax, deliveredMax, priorMax, cacheGetCalls,
          tasks, lastOp>>

----------------------------------------------------------------------------
(* Bounds *)

MaxTs == 2
MaxConnects == 2
MaxRegs == 1
MaxSubs == 4
MaxWaiters == 1
MaxGlobLen == 2
MaxTasks == 3

----------------------------------------------------------------------------
(* Values *)

Undefined == -1
NaN == -2
Null == 0

Timestamps == 0..MaxTs
OptTimestamps == Timestamps \cup {Undefined}

Digits == <<"0", "1", "2", "3", "4", "5", "6", "7", "8", "9">>

IsDigit(ch) == \E d \in 1..10 : Digits[d] = ch

DigitValue(ch) == (CHOOSE d \in 1..10 : Digits[d] = ch) - 1

\* Number.prototype.toString() of a non-negative integer
RECURSIVE toString(_)
toString(n) ==
  IF n < 10 THEN <<Digits[n + 1]>>
  ELSE toString(n \div 10) \o <<Digits[(n % 10) + 1]>>

\* parseInt(str, 10): the value of the longest prefix of digits, NaN if none
RECURSIVE ParseDigits(_, _, _)
ParseDigits(str, i, acc) ==
  IF i > Len(str) \/ ~IsDigit(str[i]) THEN acc
  ELSE ParseDigits(str, i + 1, acc * 10 + DigitValue(str[i]))

ParseInt(str) ==
  IF Len(str) = 0 \/ ~IsDigit(str[1]) THEN NaN ELSE ParseDigits(str, 1, 0)

\* the larger of two timestamps, Undefined being below all of them
MaxOf(x, y) == IF x >= y THEN x ELSE y

\* event types and subscription patterns
Star == <<"*">>
TypeAF == <<"a", ":", ":", "F">>
EmptyType == <<>>
NameF == <<"F">>
GlobA == <<"a", ":", ":", "*">>
OpenGroupGlob == <<"(", "*">>

EventTypes == {TypeAF}
HandlerSet == {"h1"}

\* the cache entry under the client's key: absent, or a string
NoEntry == [has |-> FALSE, val |-> <<>>]
Entry(str) == [has |-> TRUE, val |-> str]

\* a cache handed to the constructor whose get and/or set throw (or reject)
Failing(c, ops) == [has |-> c.has, val |-> c.val, throws |-> ops]
Throws(c, op) == "throws" \in DOMAIN c /\ op \in c.throws

\* what a cache handed to the constructor may hold when the client starts:
\* nothing, an empty string, a string that is no number, a stored cursor
InitialCache ==
  {NoEntry, Entry(<<>>), Entry(<<"x">>), Entry(toString(0)), Entry(toString(1))}

\* config.fromTimestampMs: left out, or given
ConfigChoices == {Undefined, 0}

\* event.data, by the JSON text of its contents field ("undefined": no field)
Data(contents) == [contents |-> contents]
ObjectData == Data("{}")
ZeroData == Data("0")
BareData == Data("undefined")

\* ToBoolean of the value a JSON text stands for
Truthy(json) == json \notin {"undefined", "null", "false", "0", "\"\""}

\* A decoded message is a record that has the fields of the JSON object
\* (timestamp_ms being written ts), a missing field being no field of the
\* record.  obj.name and obj?.name: the field, or what stands for undefined
Field(obj, name, undefined) ==
  IF name \in DOMAIN obj THEN obj[name] ELSE undefined

NoObject == <<>>

TypeOf(event) == Field(event, "type", EmptyType)
TimestampOf(event) == Field(event, "ts", Undefined)
HasData(event) == "data" \in DOMAIN event
ContentsOf(data) == Field(data, "contents", "undefined")

\* what JSON.parse did: threw, or returned a value, which is an object
\* (object |-> TRUE, its fields in value) or null
Threw == [thrown |-> TRUE, object |-> FALSE, value |-> NoObject]
Returned(value) == [thrown |-> FALSE, object |-> TRUE, value |-> value]
ReturnedNull == [thrown |-> FALSE, object |-> FALSE, value |-> NoObject]

\* the wrapper type of the package stream
PackageEvent ==
  <<"p", "a", "c", "k", "a", "g", "e", "_", "e", "v", "e", "n", "t">>

TypeFoo ==
  <<"0", "x", "a", "b", "c", ":", ":", "m", "o", "d", ":", ":", "F", "o", "o">>
NameFoo == <<"F", "o", "o">>

\* handlers of the caller whose body throws
ThrowingHandlers == {"hx"}

\* the handler closures that waitFor() creates, one per call
WaiterIds == <<"w1", "w2", "w3">>
IsWaiter(handler) == \E k \in DOMAIN WaiterIds : WaiterIds[k] = handler
WaiterOf(handler) == CHOOSE k \in DOMAIN WaiterIds : WaiterIds[k] = handler
NoHandler == ""

----------------------------------------------------------------------------
(* utils.ts: cursor helpers *)

\* variant: the cache is consulted whatever threshold is already set
loadTimestampFromCache_AlwaysRead(c, currentFromTimestampMs) ==
  [value |-> IF c.has /\ c.val # <<>> /\ ParseInt(c.val) # NaN
             THEN ParseInt(c.val) ELSE Undefined,
   getCalled |-> TRUE, thrown |-> FALSE]

\* variant: no try/catch around cache.get
loadTimestampFromCache_NoCatch(c, currentFromTimestampMs) ==
  IF currentFromTimestampMs # Undefined
  THEN [value |-> Undefined, getCalled |-> FALSE, thrown |-> FALSE]
  ELSE IF Throws(c, "get")
       THEN [value |-> Undefined, getCalled |-> TRUE, thrown |-> TRUE]
       ELSE [value |-> IF c.has /\ c.val # <<>> /\ ParseInt(c.val) # NaN
                       THEN ParseInt(c.val) ELSE Undefined,
             getCalled |-> TRUE, thrown |-> FALSE]

\* thrown: whether the returned promise rejects; the catch block keeps what
\* cache.get throws
loadTimestampFromCache(c, currentFromTimestampMs) ==
  IF currentFromTimestampMs # Undefined
  THEN [value |-> Undefined, getCalled |-> FALSE, thrown |-> FALSE]
  ELSE IF Throws(c, "get")
       THEN [value |-> Undefined, getCalled |-> TRUE, thrown |-> FALSE]
       ELSE [value |-> IF c.has /\ c.val # <<>> /\ ParseInt(c.val) # NaN
                       THEN ParseInt(c.val) ELSE Undefined,
             getCalled |-> TRUE, thrown |-> FALSE]

\* variant: the undefined check is missing, String(undefined) gets written
saveTimestampToCache_Always(c, latest) ==
  [cache |-> Entry(IF latest = Undefined THEN <<"u">> ELSE toString(latest)),
   setCalled |-> TRUE, thrown |-> FALSE]

\* variant: no try/catch around cache.set
saveTimestampToCache_NoCatch(c, latest) ==
  IF latest = Undefined
  THEN [cache |-> c, setCalled |-> FALSE, thrown |-> FALSE]
  ELSE IF Throws(c, "set")
       THEN [cache |-> c, setCalled |-> TRUE, thrown |-> TRUE]
       ELSE [cache |-> [c EXCEPT !.has = TRUE, !.val = toString(latest)],
             setCalled |-> TRUE, thrown |-> FALSE]

saveTimestampToCache(c, latest) ==
  IF latest = Undefined
  THEN [cache |-> c, setCalled |-> FALSE, thrown |-> FALSE]
  ELSE IF Throws(c, "set")
       THEN [cache |-> c, setCalled |-> TRUE, thrown |-> FALSE]
       ELSE [cache |-> [c EXCEPT !.has = TRUE, !.val = toString(latest)],
             setCalled |-> TRUE, thrown |-> FALSE]

\* variant: strict comparison, an event at the threshold passes
shouldFilterEventByTimestamp_Strict(eventTimestampMs, from) ==
  IF from = Undefined \/ eventTimestampMs = Undefined THEN FALSE
  ELSE eventTimestampMs < from

shouldFilterEventByTimestamp(eventTimestampMs, from) ==
  IF from = Undefined \/ eventTimestampMs = Undefined THEN FALSE
  ELSE eventTimestampMs <= from

\* variant: the last timestamp seen replaces the tracker, no maximum taken
updateLatestTimestamp_Last(eventTimestampMs, currentLatest) ==
  IF eventTimestampMs = Undefined THEN currentLatest ELSE eventTimestampMs

updateLatestTimestamp(eventTimestampMs, currentLatest) ==
  IF eventTimestampMs = Undefined THEN currentLatest
  ELSE IF currentLatest = Undefined \/ eventTimestampMs > currentLatest
       THEN eventTimestampMs
       ELSE currentLatest

----------------------------------------------------------------------------
(* constants.ts: base URLs *)

SurfluxNetwork ==
  [TESTNET |-> "testnet", MAINNET |-> "mainnet", CUSTOM |-> "custom"]

SURFLUX_API_BASE_URLS ==
  [mainnet |-> [api |-> "https://api.surflux.dev",
                flux |-> "https://flux.surflux.dev"],
   testnet |-> [api |-> "https://testnet-api.surflux.dev",
                flux |-> "https://testnet-flux.surflux.dev"],
   custom |-> [api |-> "", flux |-> ""]]

\* the optional argument customUrl is the tuple of the arguments that follow
\* network: <<>> when it is left out (undefined), <<url>> when it is given;
\* !customUrl
NoCustomUrl(rest) == rest = <<>> \/ rest[1] = ""

\* variant: a custom URL that is given wins on every network
getBaseUrl_CustomFirst(kind, network, rest) ==
  IF ~NoCustomUrl(rest)
  THEN [thrown |-> FALSE, value |-> rest[1]]
  ELSE IF network # SurfluxNetwork.CUSTOM
       THEN [thrown |-> FALSE, value |-> SURFLUX_API_BASE_URLS[network][kind]]
       ELSE [thrown |-> TRUE,
             value |-> "Custom URL is required for custom network"]

\* the common body of getApiBaseUrl (kind "api") and getFluxBaseUrl ("flux")
getBaseUrl(kind, network, rest) ==
  IF network # SurfluxNetwork.CUSTOM
  THEN [thrown |-> FALSE, value |-> SURFLUX_API_BASE_URLS[network][kind]]
  ELSE IF NoCustomUrl(rest)
       THEN [thrown |-> TRUE,
             value |-> "Custom URL is required for custom network"]
       ELSE [thrown |-> FALSE, value |-> rest[1]]

getApiBaseUrl(network, rest) == getBaseUrl("api", network, rest)

getFluxBaseUrl(network, rest) == getBaseUrl("flux", network, rest)

----------------------------------------------------------------------------
(* utils.ts: matchesPattern *)

Includes(str, ch) == \E i \in 1..Len(str) : str[i] = ch

\* new RegExp('^' + pattern.replace(/\*/g, '.*') + '$').test(eventType)
RECURSIVE RegexTest(_, _, _, _)
RegexTest(str, i, pat, j) ==
  IF j > Len(pat) THEN i > Len(str)
  ELSE IF pat[j] = "*"
       THEN \E k \in i..(Len(str) + 1) : RegexTest(str, k, pat, j + 1)
       ELSE IF pat[j] = "."
            THEN i <= Len(str) /\ RegexTest(str, i + 1, pat, j + 1)
            ELSE i <= Len(str) /\ str[i] = pat[j]
                 /\ RegexTest(str, i + 1, pat, j + 1)

matchesPattern(eventType, pattern) ==
  IF pattern = Star THEN TRUE ELSE RegexTest(eventType, 1, pattern, 1)

\* whether new RegExp('^' + ... + '$') throws a SyntaxError: a ')' that
\* closes nothing, a '(' or a '[' that is never closed (inside [...] every
\* character but ']' is literal)
RECURSIVE Unbalanced(_, _, _, _)
Unbalanced(pat, i, depth, inClass) ==
  IF i > Len(pat) THEN depth > 0 \/ inClass
  ELSE IF inClass THEN Unbalanced(pat, i + 1, depth, pat[i] # "]")
  ELSE IF pat[i] = "(" THEN Unbalanced(pat, i + 1, depth + 1, FALSE)
  ELSE IF pat[i] = ")"
       THEN depth = 0 \/ Unbalanced(pat, i + 1, depth - 1, FALSE)
  ELSE Unbalanced(pat, i + 1, depth, pat[i] = "[")

RegExpThrows(pattern) == pattern # Star /\ Unbalanced(pattern, 1, 0, FALSE)

\* whether the loop over this.subscriptions.entries() throws: matchesPattern
\* is called for every pattern that contains '*' and is not '*'
GlobThrows(subs) ==
  \E i \in DOMAIN subs :
    /\ subs[i].pattern # Star
    /\ Includes(subs[i].pattern, "*")
    /\ RegExpThrows(subs[i].pattern)

\* event.type.split('::') and its last part
RECURSIVE LastSeparator(_, _)
LastSeparator(str, i) ==
  IF i < 1 THEN 0
  ELSE IF str[i] = ":" /\ str[i + 1] = ":" THEN i
       ELSE LastSeparator(str, i - 1)

ShortName(type) ==
  LET s == LastSeparator(type, Len(type) - 1)
  IN IF s = 0 THEN type ELSE SubSeq(type, s + 2, Len(type))

----------------------------------------------------------------------------
(* The subscription registry: Map<string, EventHandler[]> *)

Has(subs, pattern) == \E i \in DOMAIN subs : subs[i].pattern = pattern

IndexOfKey(subs, pattern) == CHOOSE i \in DOMAIN subs : subs[i].pattern = pattern

\* subscriptions.get(pattern), <<>> standing for undefined
Get(subs, pattern) ==
  IF Has(subs, pattern) THEN subs[IndexOfKey(subs, pattern)].handlers ELSE <<>>

RemoveAt(seq, i) == SubSeq(seq, 1, i - 1) \o SubSeq(seq, i + 1, Len(seq))

\* subscriptions.delete(pattern)
Delete(subs, pattern) ==
  IF Has(subs, pattern) THEN RemoveAt(subs, IndexOfKey(subs, pattern)) ELSE subs

\* variant: the last occurrence is found
IndexOf_Last(handlers, handler) ==
  IF \E i \in DOMAIN handlers : handlers[i] = handler
  THEN CHOOSE i \in DOMAIN handlers :
         /\ handlers[i] = handler
         /\ \A k \in (i + 1)..Len(handlers) : handlers[k] # handler
  ELSE 0

\* handlers.indexOf(handler), 0 standing for -1
IndexOf(handlers, handler) ==
  IF \E i \in DOMAIN handlers : handlers[i] = handler
  THEN CHOOSE i \in DOMAIN handlers :
         /\ handlers[i] = handler
         /\ \A k \in 1..(i - 1) : handlers[k] # handler
  ELSE 0

\* variant: a handler already in the entry is not added again
on_Dedup(subs, pattern, handler) ==
  LET withKey == IF Has(subs, pattern) THEN subs
                 ELSE Append(subs, [pattern |-> pattern, handlers |-> <<>>])
      k == IndexOfKey(withKey, pattern)
  IN IF \E i \in DOMAIN withKey[k].handlers : withKey[k].handlers[i] = handler
     THEN withKey
     ELSE [withKey EXCEPT ![k].handlers = Append(@, handler)]

on(subs, pattern, handler) ==
  LET withKey == IF Has(subs, pattern) THEN subs
                 ELSE Append(subs, [pattern |-> pattern, handlers |-> <<>>])
      k == IndexOfKey(withKey, pattern)
  IN [withKey EXCEPT ![k].handlers = Append(@, handler)]

\* variant: an entry left without handlers stays in the map
off_KeepsEmpty(subs, pattern, handler) ==
  IF ~Has(subs, pattern) THEN subs
  ELSE LET k == IndexOfKey(subs, pattern)
           idx == IndexOf(subs[k].handlers, handler)
           rest == IF idx > 0 THEN RemoveAt(subs[k].handlers, idx)
                   ELSE subs[k].handlers
       IN [subs EXCEPT ![k].handlers = rest]

off(subs, pattern, handler) ==
  IF ~Has(subs, pattern) THEN subs
  ELSE LET k == IndexOfKey(subs, pattern)
           idx == IndexOf(subs[k].handlers, handler)
           rest == IF idx > 0 THEN RemoveAt(subs[k].handlers, idx)
                   ELSE subs[k].handlers
       IN IF rest = <<>> THEN RemoveAt(subs, k)
          ELSE [subs EXCEPT ![k].handlers = rest]

RECURSIVE CountRegs(_)
CountRegs(subs) ==
  IF subs = <<>> THEN 0 ELSE Len(Head(subs).handlers) + CountRegs(Tail(subs))

----------------------------------------------------------------------------
(* handleEvent *)

Entries(handlers, wildcard) ==
  [i \in 1..Len(handlers) |-> [handler |-> handlers[i], isWildcard |-> wildcard]]

\* the loop over subscriptions.entries() for the patterns containing '*'
RECURSIVE GlobEntries(_, _, _)
GlobEntries(subs, type, i) ==
  IF i > Len(subs) THEN <<>>
  ELSE (IF /\ subs[i].pattern # Star
           /\ Includes(subs[i].pattern, "*")
           /\ matchesPattern(type, subs[i].pattern)
        THEN Entries(subs[i].handlers, FALSE) ELSE <<>>)
       \o GlobEntries(subs, type, i + 1)

\* variant: the '*' entry comes after the globs
handlerEntries_StarLast(fl, subs, type) ==
  Entries(Get(subs, type), FALSE)
    \o (IF fl = "A" THEN Entries(Get(subs, ShortName(type)), FALSE) ELSE <<>>)
    \o GlobEntries(subs, type, 1)
    \o Entries(Get(subs, Star), TRUE)

\* variant: the short name is not looked up when it is the full type
handlerEntries_NoRepeat(fl, subs, type) ==
  Entries(Get(subs, type), FALSE)
    \o (IF fl = "A" /\ ShortName(type) # type
        THEN Entries(Get(subs, ShortName(type)), FALSE) ELSE <<>>)
    \o Entries(Get(subs, Star), TRUE)
    \o GlobEntries(subs, type, 1)

handlerEntries(fl, subs, type) ==
  Entries(Get(subs, type), FALSE)
    \o (IF fl = "A" THEN Entries(Get(subs, ShortName(type)), FALSE) ELSE <<>>)
    \o Entries(Get(subs, Star), TRUE)
    \o GlobEntries(subs, type, 1)

\* variant: the handlers of '*' are called with the event in every case
argument_Canonical(fl, event, fullPackageEvent, isWildcard) ==
  IF isWildcard THEN "event"
  ELSE IF fl = "A" /\ ~HasData(event) THEN "TypeError"
       ELSE IF fl = "A" /\ Truthy(ContentsOf(event.data)) THEN "contents"
            ELSE "data"

\* what the handler of one entry is called with: the rich payload, the
\* event, its data, or the contents of its data; in the package client
\* reading the contents of a missing data throws before the handler is called
argument(fl, event, fullPackageEvent, isWildcard) ==
  IF isWildcard
  THEN IF fl = "A" /\ fullPackageEvent # NoObject THEN "full" ELSE "event"
  ELSE IF fl = "A" /\ ~HasData(event) THEN "TypeError"
       ELSE IF fl = "A" /\ Truthy(ContentsOf(event.data)) THEN "contents"
            ELSE "data"

arguments(fl, event, fullPackageEvent, entries) ==
  [i \in 1..Len(entries) |->
     argument(fl, event, fullPackageEvent, entries[i].isWildcard)]

\* the value behind each of these
payload(event, fullPackageEvent, arg) ==
  CASE arg = "full" -> fullPackageEvent
    [] arg = "event" -> event
    [] arg = "contents" -> event.data.contents
    [] arg = "data" -> Field(event, "data", NoObject)
    [] OTHER -> NoObject

payloads(event, fullPackageEvent, args) ==
  [i \in 1..Len(args) |-> payload(event, fullPackageEvent, args[i])]

\* handleEvent left by an exception after the cursor was raised and before
\* any handler was called
Aborted(latest, event) ==
  [latest |-> updateLatestTimestamp(TimestampOf(event), latest),
   passed |-> TRUE, invoked |-> <<>>, args |-> <<>>, payloads |-> <<>>]

NotDispatched(latest) ==
  [latest |-> latest, passed |-> FALSE, invoked |-> <<>>, args |-> <<>>,
   payloads |-> <<>>]

Dispatched(fl, latest, event, fullPackageEvent, entries) ==
  LET args == arguments(fl, event, fullPackageEvent, entries)
  IN [latest |-> updateLatestTimestamp(TimestampOf(event), latest),
      passed |-> TRUE, invoked |-> entries, args |-> args,
      payloads |-> payloads(event, fullPackageEvent, args)]

\* variant: events are filtered against the running maximum as well
handleEvent_FilterLatest(fl, subs, from, latest, event, fullPackageEvent) ==
  IF TypeOf(event) = EmptyType THEN NotDispatched(latest)
  ELSE IF shouldFilterEventByTimestamp(TimestampOf(event), MaxOf(from, latest))
       THEN NotDispatched(latest)
       ELSE Dispatched(fl, latest, event, fullPackageEvent,
                       handlerEntries(fl, subs, event.type))

\* variant: an event without a type is dispatched like any other
handleEvent_NoTypeCheck(fl, subs, from, latest, event, fullPackageEvent) ==
  IF shouldFilterEventByTimestamp(TimestampOf(event), from)
  THEN NotDispatched(latest)
  ELSE Dispatched(fl, latest, event, fullPackageEvent,
                  handlerEntries(fl, subs, TypeOf(event)))

\* the result of one handleEvent call: the new latestTimestampMs, whether the
\* event got past the two early returns, the entries collected, and what
\* the handler of each is called with; an exception thrown while the
\* entries are collected leaves it before any handler is called (the
\* listener's try/catch logs it)
handleEvent(fl, subs, from, latest, event, fullPackageEvent) ==
  IF TypeOf(event) = EmptyType THEN NotDispatched(latest)
  ELSE IF shouldFilterEventByTimestamp(TimestampOf(event), from)
       THEN NotDispatched(latest)
       ELSE IF GlobThrows(subs) THEN Aborted(latest, event)
       ELSE Dispatched(fl, latest, event, fullPackageEvent,
                       handlerEntries(fl, subs, event.type))

----------------------------------------------------------------------------
(* The message listener: JSON.parse, the normaliser, handleEvent *)

\* The texts of the messages of the model
RichText ==
  "{\"type\":\"package_event\",\"data\":{\"event_type\":\"0xabc::mod::Foo\",\"contents\":{\"x\":1}}}"
StampedRichText ==
  "{\"type\":\"package_event\",\"timestamp_ms\":1,\"checkpoint_id\":7,\"tx_hash\":\"T\",\"data\":{\"event_index\":0,\"sender\":\"S\",\"event_type\":\"0xabc::mod::Foo\",\"contents\":{\"x\":1},\"module\":\"mod\"}}"
UntypedRichText ==
  "{\"type\":\"package_event\",\"timestamp_ms\":1,\"data\":{\"event_type\":\"\",\"contents\":{\"x\":1}}}"
PlainRichText ==
  "{\"type\":\"package_event\",\"timestamp_ms\":1,\"data\":{\"contents\":{\"x\":1}}}"
FlatText == "{\"type\":\"Foo\",\"timestamp_ms\":2,\"data\":{\"contents\":{\"x\":1}}}"
EmptyTypeText == "{\"type\":\"\",\"timestamp_ms\":2,\"data\":{\"contents\":{\"x\":1}}}"
NoTypeText == "{\"timestamp_ms\":2,\"data\":{\"contents\":{\"x\":1}}}"
CutText == "{\"type\":\"Foo\",\"timestamp_ms\":2,"
NullText == "null"

FooContents == "{\"x\":1}"

\* JSON.parse(event.data) for these texts
JSONParse(text) ==
  CASE text = RichText ->
         Returned([type |-> PackageEvent,
                   data |-> [event_type |-> TypeFoo, contents |-> FooContents]])
    [] text = StampedRichText ->
         Returned([type |-> PackageEvent, ts |-> 1, checkpoint_id |-> 7,
                   tx_hash |-> "T",
                   data |-> [event_index |-> 0, sender |-> "S",
                             event_type |-> TypeFoo, contents |-> FooContents,
                             module |-> "mod"]])
    [] text = UntypedRichText ->
         Returned([type |-> PackageEvent, ts |-> 1,
                   data |-> [event_type |-> EmptyType, contents |-> FooContents]])
    [] text = PlainRichText ->
         Returned([type |-> PackageEvent, ts |-> 1, data |-> Data(FooContents)])
    [] text = FlatText ->
         Returned([type |-> NameFoo, ts |-> 2, data |-> Data(FooContents)])
    [] text = EmptyTypeText ->
         Returned([type |-> EmptyType, ts |-> 2, data |-> Data(FooContents)])
    [] text = NoTypeText -> Returned([ts |-> 2, data |-> Data(FooContents)])
    [] text = NullText -> ReturnedNull
    [] OTHER -> Threw

\* rawData.type === 'package_event' && rawData.data?.event_type
IsPackageEvent(rawData) ==
  /\ TypeOf(rawData) = PackageEvent
  /\ HasData(rawData)
  /\ Field(rawData.data, "event_type", EmptyType) # EmptyType

\* variant: data is taken over as it came
transformedEvent_KeepsData(packageEvent) ==
  [type |-> packageEvent.data.event_type,
   ts |-> TimestampOf(packageEvent),
   checkpoint_id |-> Field(packageEvent, "checkpoint_id", Undefined),
   tx_hash |-> Field(packageEvent, "tx_hash", "undefined"),
   data |-> packageEvent.data]

transformedEvent(packageEvent) ==
  [type |-> packageEvent.data.event_type,
   ts |-> TimestampOf(packageEvent),
   checkpoint_id |-> Field(packageEvent, "checkpoint_id", Undefined),
   tx_hash |-> Field(packageEvent, "tx_hash", "undefined"),
   data |-> [event_index |-> Field(packageEvent.data, "event_index", Undefined),
             sender |-> Field(packageEvent.data, "sender", "undefined"),
             event_type |-> packageEvent.data.event_type,
             contents |-> ContentsOf(packageEvent.data)]]

\* variant: the transformed event is handed on as the rich payload too
handleMessageEvent_FullTransformed(fl, parsed) ==
  IF parsed.thrown \/ ~parsed.object
  THEN [thrown |-> TRUE, event |-> NoObject, fullPackageEvent |-> NoObject]
  ELSE IF fl = "A" /\ IsPackageEvent(parsed.value)
       THEN [thrown |-> FALSE, event |-> transformedEvent(parsed.value),
             fullPackageEvent |-> transformedEvent(parsed.value)]
       ELSE [thrown |-> FALSE, event |-> parsed.value,
             fullPackageEvent |-> NoObject]

\* the body of the listener's try block after JSON.parse returned: the two
\* arguments handleEvent is called with, or thrown when reading a property
\* of null throws (the Deepbook client hands every value to handleEvent,
\* which reads event.type)
handleMessageEvent(fl, parsed) ==
  IF parsed.thrown \/ ~parsed.object
  THEN [thrown |-> TRUE, event |-> NoObject, fullPackageEvent |-> NoObject]
  ELSE IF fl = "A" /\ IsPackageEvent(parsed.value)
       THEN [thrown |-> FALSE, event |-> transformedEvent(parsed.value),
             fullPackageEvent |-> parsed.value]
       ELSE [thrown |-> FALSE, event |-> parsed.value,
             fullPackageEvent |-> NoObject]

----------------------------------------------------------------------------
(* Promises and transports *)

\* resolve()/reject() of a Promise: only the first call has an effect
Settle(status, outcome) == IF status = "pending" THEN outcome ELSE status

\* variant: the first exception ends the loop over the entries
RECURSIVE runHandlers_NoCatch(_, _, _, _, _)
runHandlers_NoCatch(subs, ws, invoked, args, i) ==
  IF i > Len(invoked)
  THEN [subscriptions |-> subs, waiters |-> ws, called |-> <<>>]
  ELSE LET h == invoked[i].handler
           rest(s, w) == runHandlers_NoCatch(s, w, invoked, args, i + 1)
           After(r) == [r EXCEPT !.called = <<i>> \o @]
       IN IF args[i] = "TypeError"
          THEN [subscriptions |-> subs, waiters |-> ws, called |-> <<>>]
          ELSE IF IsWaiter(h)
               THEN LET k == WaiterOf(h)
                    IN After(rest(
                         off(subs, ws[k].pattern, h),
                         [ws EXCEPT ![k].timer = IF @ = "armed" THEN "cleared"
                                                  ELSE @,
                                    ![k].value = IF ws[k].promise = "pending"
                                                 THEN args[i] ELSE @,
                                    ![k].promise = Settle(@, "resolved")]))
               ELSE IF h \in ThrowingHandlers
                    THEN [subscriptions |-> subs, waiters |-> ws,
                          called |-> <<i>>]
                    ELSE After(rest(subs, ws))

\* handlers of the caller whose body calls back into the client: "hoff"
\* calls client.off(TypeAF, "h1"), "hon" calls client.on(TypeAF, "h1")
CallingHandlers == {"hoff", "hon"}

\* the registry after the body of a handler of the caller has run
body(subs, handler) ==
  IF handler = "hoff" THEN off(subs, TypeAF, "h1")
  ELSE IF handler = "hon" THEN on(subs, TypeAF, "h1")
  ELSE subs

\* variant: an entry whose handler has been unregistered since the entries
\* were collected is skipped
RECURSIVE runHandlers_Live(_, _, _, _, _)
runHandlers_Live(subs, ws, invoked, args, i) ==
  IF i > Len(invoked)
  THEN [subscriptions |-> subs, waiters |-> ws, called |-> <<>>]
  ELSE LET h == invoked[i].handler
           rest(s, w) == runHandlers_Live(s, w, invoked, args, i + 1)
           After(r) == [r EXCEPT !.called = <<i>> \o @]
           live == \E k \in DOMAIN subs : IndexOf(subs[k].handlers, h) > 0
       IN IF args[i] = "TypeError" \/ ~live THEN rest(subs, ws)
          ELSE IF IsWaiter(h)
               THEN LET k == WaiterOf(h)
                    IN After(rest(
                         off(subs, ws[k].pattern, h),
                         [ws EXCEPT ![k].timer = IF @ = "armed" THEN "cleared"
                                                  ELSE @,
                                    ![k].value = IF ws[k].promise = "pending"
                                                 THEN args[i] ELSE @,
                                    ![k].promise = Settle(@, "resolved")]))
               ELSE After(rest(body(subs, h), ws))

\* handlerEntries.forEach: what the calls made for one event do to the
\* client, and which entries had their handler called.  Each call is in a
\* try block of its own: an entry whose argument cannot be read is skipped, a
\* handler of the caller that throws has been called; a waitFor() closure
\* clears its timer, unregisters itself and resolves its promise; a handler
\* of the caller does to the registry what its body does.  The entries were
\* collected before the first call and are not read from the registry again
RECURSIVE runHandlers(_, _, _, _, _)
runHandlers(subs, ws, invoked, args, i) ==
  IF i > Len(invoked)
  THEN [subscriptions |-> subs, waiters |-> ws, called |-> <<>>]
  ELSE LET h == invoked[i].handler
           rest(s, w) == runHandlers(s, w, invoked, args, i + 1)
           After(r) == [r EXCEPT !.called = <<i>> \o @]
       IN IF args[i] = "TypeError" THEN rest(subs, ws)
          ELSE IF IsWaiter(h)
               THEN LET k == WaiterOf(h)
                    IN After(rest(
                         off(subs, ws[k].pattern, h),
                         [ws EXCEPT ![k].timer = IF @ = "armed" THEN "cleared"
                                                  ELSE @,
                                    ![k].value = IF ws[k].promise = "pending"
                                                 THEN args[i] ELSE @,
                                    ![k].promise = Settle(@, "resolved")]))
               ELSE After(rest(body(subs, h), ws))

\* the elements of seq at the places listed
Pick(seq, places) == [j \in 1..Len(places) |-> seq[places[j]]]

\* one waitFor() call: the pattern its closure is registered under, the
\* timeout it was given, its timer ("none" when no timer was set), its
\* promise and what the promise was resolved with
NewWaiter(pattern, timeout) ==
  [pattern |-> pattern, timeout |-> timeout,
   timer |-> IF timeout # Undefined /\ timeout # 0 THEN "armed" ELSE "none",
   promise |-> "pending", value |-> "none"]

\* one connect() call: its promise, the transport it created (kind "none" if it
\* created none) with that transport's readyState, and as history whether
\* the listeners were told of an open, or of an error before any open,
\* whether every earlier connect() had settled when this one was called, and
\* whether the client held no transport, or tore it down, when it was called
NewConn(kind, awaited, afterSave) ==
  [kind |-> kind, rs |-> "connecting", promise |-> "pending",
   openReported |-> FALSE, errBeforeOpen |-> FALSE, awaited |-> awaited,
   afterSave |-> afterSave]

\* eventSource.close()
Close(cs, c) ==
  IF c = Null THEN cs
  ELSE [cs EXCEPT ![c].rs = "closed"]

\* what an operation reports about itself: the transport it concerns, the
\* message it was given, the event handleEvent was called with (its type,
\* timestamp and data apart), the entries that matched, the handler calls
\* made and what each was called with, the pattern and handler the
\* operation was given, the cache calls it made
Op(name) ==
  [op |-> name, c |-> Null, type |-> EmptyType, ts |-> Undefined,
   data |-> BareData, passed |-> FALSE, invoked |-> <<>>, args |-> <<>>,
   pattern |-> EmptyType, handler |-> NoHandler,
   cacheSet |-> FALSE, disconnectRan |-> FALSE,
   parsed |-> Threw, event |-> NoObject, matched |-> <<>>, payloads |-> <<>>,
   rejected |-> FALSE, call |-> NoObject]

\* The message tasks of the host (the JavaScript event loop): the messages
\* that have arrived and whose listener has not started, how many have
\* arrived, the handleEvent calls that have begun and not returned, and how
\* many have returned
NoTasks == [queued |-> <<>>, arrived |-> 0, begun |-> <<>>, finished |-> 0]

----------------------------------------------------------------------------
(* State machine *)

\* the state after construction
Constructed ==
  /\ flavor \in {"A", "B"}
  /\ env \in {"native", "client"}
  /\ configFrom \in ConfigChoices
  /\ fromTimestampMs = configFrom
  /\ latestTimestampMs = Undefined
  /\ cache \in InitialCache
  /\ eventSource = Null
  /\ isConnected = FALSE
  /\ subscriptions = <<>>
  /\ conns = <<>>
  /\ waiters = <<>>
  /\ dispatchedMax = Undefined
  /\ sessionMax = Undefined
  /\ deliveredMax = Undefined
  /\ priorMax = Undefined
  /\ cacheGetCalls = 0
  /\ tasks = NoTasks
  /\ lastOp = Op("init")

\* the effect of disconnect() on (eventSource, isConnected, transports, cache)
disconnect(es, connected, cs, ch, latest) ==
  LET saved == saveTimestampToCache(ch, latest)
  IN [eventSource |-> Null,
      isConnected |-> IF es # Null THEN FALSE ELSE connected,
      conns |-> Close(cs, es),
      cache |-> saved.cache,
      setCalled |-> saved.setCalled,
      thrown |-> saved.thrown,
      closed |-> es]

Disconnect ==
  LET d == disconnect(eventSource, isConnected, conns, cache, latestTimestampMs)
  IN /\ eventSource' = d.eventSource
     /\ isConnected' = d.isConnected
     /\ conns' = d.conns
     /\ cache' = d.cache
     /\ lastOp' = [Op("disconnect") EXCEPT !.disconnectRan = TRUE,
                                            !.cacheSet = d.setCalled,
                                            !.rejected = d.thrown]
     /\ UNCHANGED <<flavor, env, configFrom, fromTimestampMs, latestTimestampMs,
                    subscriptions, dispatchedMax, sessionMax, deliveredMax, priorMax,
                 cacheGetCalls, waiters, tasks>>

\* variant: the package client also tears a connected client down
Connect_TearsDown ==
  LET load == loadTimestampFromCache(cache, fromTimestampMs)
      tearDown == isConnected
      awaited == \A k \in DOMAIN conns : conns[k].promise # "pending"
      afterSave == eventSource = Null \/ tearDown
      d == disconnect(eventSource, isConnected, conns, cache, latestTimestampMs)
  IN /\ fromTimestampMs' =
          IF load.value # Undefined THEN load.value ELSE fromTimestampMs
     /\ cacheGetCalls' = cacheGetCalls + (IF load.getCalled THEN 1 ELSE 0)
     /\ IF FALSE
        THEN /\ conns' = Append(conns, [NewConn("none", awaited, afterSave)
                          EXCEPT !.rs = "closed", !.promise = "resolved"])
             /\ lastOp' = Op("connect")
             /\ UNCHANGED <<eventSource, isConnected, cache, sessionMax,
                            priorMax>>
        ELSE /\ conns' = Append(IF tearDown THEN d.conns ELSE conns,
                                NewConn(env, awaited, afterSave))
             /\ eventSource' = Len(conns) + 1
             /\ isConnected' = IF tearDown THEN d.isConnected ELSE isConnected
             /\ cache' = IF tearDown THEN d.cache ELSE cache
             /\ sessionMax' = Undefined
             /\ priorMax' = deliveredMax
             /\ lastOp' = [Op("connect") EXCEPT
                             !.disconnectRan = tearDown,
                             !.cacheSet = tearDown /\ d.setCalled]
     /\ UNCHANGED <<flavor, env, configFrom, latestTimestampMs, subscriptions,
                    dispatchedMax, deliveredMax, waiters, tasks>>

\* a connect() call that ends rejected without a transport of its own
Refused(awaited, afterSave) ==
  [NewConn("none", awaited, afterSave) EXCEPT !.rs = "closed",
                                              !.promise = "rejected"]

\* connect(): the cache load, then the Promise executor; a rejection of an
\* awaited helper, or a platform without any EventSource, rejects the call
Connect ==
  LET load == loadTimestampFromCache(cache, fromTimestampMs)
      tearDown == flavor = "B" /\ isConnected
      awaited == \A k \in DOMAIN conns : conns[k].promise # "pending"
      afterSave == eventSource = Null \/ tearDown
      d == disconnect(eventSource, isConnected, conns, cache, latestTimestampMs)
  IN /\ fromTimestampMs' =
          IF load.value # Undefined THEN load.value ELSE fromTimestampMs
     /\ cacheGetCalls' = cacheGetCalls + (IF load.getCalled THEN 1 ELSE 0)
     /\ IF load.thrown
        THEN /\ conns' = Append(conns, Refused(awaited, afterSave))
             /\ lastOp' = [Op("connect") EXCEPT !.rejected = TRUE]
             /\ UNCHANGED <<eventSource, isConnected, cache, sessionMax,
                            priorMax>>
        ELSE IF flavor = "A" /\ isConnected
        THEN /\ conns' = Append(conns, [NewConn("none", awaited, afterSave)
                          EXCEPT !.rs = "closed", !.promise = "resolved"])
             /\ lastOp' = Op("connect")
             /\ UNCHANGED <<eventSource, isConnected, cache, sessionMax,
                            priorMax>>
        ELSE IF (tearDown /\ d.thrown) \/ env = "absent"
        THEN /\ conns' = Append(IF tearDown THEN d.conns ELSE conns,
                                Refused(awaited, afterSave))
             /\ eventSource' = IF tearDown THEN d.eventSource ELSE eventSource
             /\ isConnected' = IF tearDown THEN d.isConnected ELSE isConnected
             /\ cache' = IF tearDown THEN d.cache ELSE cache
             /\ lastOp' = [Op("connect") EXCEPT
                             !.disconnectRan = tearDown,
                             !.cacheSet = tearDown /\ d.setCalled,
                             !.rejected = TRUE]
             /\ UNCHANGED <<sessionMax, priorMax>>
        ELSE /\ conns' = Append(IF tearDown THEN d.conns ELSE conns,
                                NewConn(env, awaited, afterSave))
             /\ eventSource' = Len(conns) + 1
             /\ isConnected' = IF tearDown THEN d.isConnected ELSE isConnected
             /\ cache' = IF tearDown THEN d.cache ELSE cache
             /\ sessionMax' = Undefined
             /\ priorMax' = deliveredMax
             /\ lastOp' = [Op("connect") EXCEPT
                             !.disconnectRan = tearDown,
                             !.cacheSet = tearDown /\ d.setCalled]
     /\ UNCHANGED <<flavor, env, configFrom, latestTimestampMs, subscriptions,
                    dispatchedMax, deliveredMax, waiters, tasks>>

\* the transport reports open: the 'open' listener, if one was registered
TransportOpen(c) ==
  /\ conns[c].rs = "connecting"
  /\ IF conns[c].kind = "native"
     THEN /\ isConnected' = TRUE
          /\ conns' = [conns EXCEPT ![c].rs = "open",
                                    ![c].openReported = TRUE,
                                    ![c].promise = Settle(@, "resolved")]
          /\ lastOp' = [Op("open") EXCEPT !.c = c]
     ELSE /\ conns' = [conns EXCEPT ![c].rs = "open"]
          /\ lastOp' = [Op("open") EXCEPT !.c = c]
          /\ UNCHANGED isConnected
  /\ UNCHANGED <<flavor, env, configFrom, fromTimestampMs, latestTimestampMs,
                 cache, eventSource, subscriptions, dispatchedMax, sessionMax,
                 deliveredMax, priorMax,
                 cacheGetCalls, waiters, tasks>>

\* variant: the error listener marks the client disconnected
TransportError_MarksDisconnected(c, fatal) ==
  /\ conns[c].rs \in {"connecting", "open"}
  /\ conns' = [conns EXCEPT
       ![c].rs = IF fatal THEN "closed" ELSE "connecting",
       ![c].errBeforeOpen = @ \/ (conns[c].kind = "native" /\ ~conns[c].openReported),
       ![c].promise = IF conns[c].kind = "native" THEN Settle(@, "rejected") ELSE @]
  /\ isConnected' = IF conns[c].kind = "native" THEN FALSE ELSE isConnected
  /\ lastOp' = [Op("error") EXCEPT !.c = c]
  /\ UNCHANGED <<flavor, env, configFrom, fromTimestampMs, latestTimestampMs,
                 cache, eventSource, subscriptions, dispatchedMax, sessionMax,
                 deliveredMax, priorMax, cacheGetCalls, waiters, tasks>>

\* the transport reports an error: the 'error' listener, if one was registered;
\* the transport itself then retries (fatal = FALSE) or gives up
TransportError(c, fatal) ==
  /\ conns[c].rs \in {"connecting", "open"}
  /\ LET rs1 == IF fatal THEN "closed" ELSE "connecting"
     IN IF conns[c].kind = "native"
        THEN /\ conns' = [conns EXCEPT
                  ![c].rs = rs1,
                  ![c].errBeforeOpen = @ \/ ~conns[c].openReported,
                  ![c].promise = IF ~isConnected THEN Settle(@, "rejected") ELSE @]
             /\ lastOp' = [Op("error") EXCEPT !.c = c]
        ELSE /\ conns' = [conns EXCEPT ![c].rs = rs1]
             /\ lastOp' = [Op("error") EXCEPT !.c = c]
  /\ UNCHANGED <<flavor, env, configFrom, fromTimestampMs, latestTimestampMs,
                 cache, eventSource, isConnected, subscriptions, dispatchedMax,
                 sessionMax, deliveredMax, priorMax,
                 cacheGetCalls, waiters, tasks>>

\* variant: a message that cannot be handled ends the connection
Listener_DropsConnection(c, parsed) ==
  /\ conns[c].rs = "open"
  /\ LET m == handleMessageEvent(flavor, parsed)
         r == IF m.thrown THEN NotDispatched(latestTimestampMs)
              ELSE handleEvent(flavor, subscriptions, fromTimestampMs,
                               latestTimestampMs, m.event, m.fullPackageEvent)
         ts == TimestampOf(m.event)
         stamped == IF r.passed THEN ts ELSE Undefined
         ran == runHandlers(subscriptions, waiters, r.invoked, r.args, 1)
     IN /\ latestTimestampMs' = r.latest
        /\ subscriptions' = ran.subscriptions
        /\ waiters' = ran.waiters
        /\ dispatchedMax' = MaxOf(dispatchedMax, stamped)
        /\ sessionMax' = MaxOf(sessionMax, stamped)
        /\ deliveredMax' = IF ran.called # <<>>
                           THEN MaxOf(deliveredMax, ts) ELSE deliveredMax
        /\ lastOp' = [Op("message") EXCEPT
                        !.c = c, !.type = TypeOf(m.event), !.ts = ts,
                        !.data = Field(m.event, "data", BareData),
                        !.passed = r.passed,
                        !.invoked = Pick(r.invoked, ran.called),
                        !.args = Pick(r.args, ran.called),
                        !.payloads = Pick(r.payloads, ran.called),
                        !.matched = r.invoked,
                        !.parsed = parsed, !.event = m.event]
        /\ isConnected' = (isConnected /\ ~m.thrown)
  /\ UNCHANGED <<flavor, env, configFrom, fromTimestampMs, cache, eventSource,
                 conns, priorMax, cacheGetCalls, tasks>>

\* the transport delivers one message: the 'message' listener / onMessage,
\* parsed being what JSON.parse does with the text of the message
Listener(c, parsed) ==
  /\ conns[c].rs = "open"
  /\ LET m == handleMessageEvent(flavor, parsed)
         r == IF m.thrown THEN NotDispatched(latestTimestampMs)
              ELSE handleEvent(flavor, subscriptions, fromTimestampMs,
                               latestTimestampMs, m.event, m.fullPackageEvent)
         ts == TimestampOf(m.event)
         stamped == IF r.passed THEN ts ELSE Undefined
         ran == runHandlers(subscriptions, waiters, r.invoked, r.args, 1)
     IN /\ latestTimestampMs' = r.latest
        /\ subscriptions' = ran.subscriptions
        /\ waiters' = ran.waiters
        /\ dispatchedMax' = MaxOf(dispatchedMax, stamped)
        /\ sessionMax' = MaxOf(sessionMax, stamped)
        /\ deliveredMax' = IF ran.called # <<>>
                           THEN MaxOf(deliveredMax, ts) ELSE deliveredMax
        /\ lastOp' = [Op("message") EXCEPT
                        !.c = c, !.type = TypeOf(m.event), !.ts = ts,
                        !.data = Field(m.event, "data", BareData),
                        !.passed = r.passed,
                        !.invoked = Pick(r.invoked, ran.called),
                        !.args = Pick(r.args, ran.called),
                        !.payloads = Pick(r.payloads, ran.called),
                        !.matched = r.invoked,
                        !.parsed = parsed, !.event = m.event]
  /\ UNCHANGED <<flavor, env, configFrom, fromTimestampMs, cache, eventSource,
                 isConnected, conns, priorMax, cacheGetCalls, tasks>>

\* a message whose text is the JSON of event
TransportMessage(c, event) == Listener(c, Returned(event))

\* a message with the given text
TransportText(c, text) == Listener(c, JSONParse(text))

\* The same listener, one step at a time.

\* variant: handleEvent awaits each handler
yields_Awaited(handler) == TRUE

\* whether handleEvent hands control back to the host after calling handler:
\* it is not an async function and calls handler(...) without await
yields(handler) == FALSE

\* no call of the client is on the stack: the host starts a task (a listener,
\* a continuation, code of the caller) only then
StackFree == \A k \in DOMAIN tasks.begun : tasks.begun[k].yielded

\* the transport receives a message: the host queues the listener's task
Arrive(c, parsed) ==
  /\ conns[c].rs = "open"
  /\ tasks' = [tasks EXCEPT
                !.arrived = @ + 1,
                !.queued = Append(@, [n |-> tasks.arrived + 1, c |-> c,
                                      parsed |-> parsed])]
  /\ lastOp' = [Op("arrive") EXCEPT !.c = c, !.call = tasks.arrived + 1]
  /\ UNCHANGED <<flavor, env, configFrom, fromTimestampMs, latestTimestampMs,
                 cache, eventSource, isConnected, subscriptions, conns,
                 waiters, dispatchedMax, sessionMax, deliveredMax, priorMax,
                 cacheGetCalls>>

\* the host runs the listener for the oldest queued message, up to the point
\* where handleEvent has collected handlerEntries
Begin ==
  /\ StackFree
  /\ tasks.queued # <<>>
  /\ LET task == Head(tasks.queued)
         m == handleMessageEvent(flavor, task.parsed)
         r == IF m.thrown THEN NotDispatched(latestTimestampMs)
              ELSE handleEvent(flavor, subscriptions, fromTimestampMs,
                               latestTimestampMs, m.event, m.fullPackageEvent)
         ts == TimestampOf(m.event)
         stamped == IF r.passed THEN ts ELSE Undefined
     IN /\ latestTimestampMs' = r.latest
        /\ dispatchedMax' = MaxOf(dispatchedMax, stamped)
        /\ sessionMax' = MaxOf(sessionMax, stamped)
        /\ tasks' = [tasks EXCEPT
                      !.queued = Tail(@),
                      !.begun = IF r.invoked = <<>> THEN @
                                ELSE Append(@, [n |-> task.n, ts |-> ts,
                                                invoked |-> r.invoked,
                                                args |-> r.args, at |-> 0,
                                                yielded |-> FALSE]),
                      !.finished = IF r.invoked = <<>> THEN @ + 1 ELSE @]
        /\ lastOp' = [Op("begin") EXCEPT
                        !.c = task.c, !.type = TypeOf(m.event), !.ts = ts,
                        !.passed = r.passed, !.matched = r.invoked,
                        !.parsed = task.parsed, !.event = m.event,
                        !.call = task.n]
  /\ UNCHANGED <<flavor, env, configFrom, fromTimestampMs, cache, eventSource,
                 isConnected, subscriptions, conns, waiters, deliveredMax,
                 priorMax, cacheGetCalls>>

\* handlerEntries.forEach goes one entry further in the handleEvent call
\* begun[k]: the next handler is called and returns; after the last entry
\* handleEvent returns
Call(k) ==
  /\ k \in DOMAIN tasks.begun
  /\ ~tasks.begun[k].yielded \/ StackFree
  /\ LET a == tasks.begun[k]
         i == a.at + 1
         last == i >= Len(a.invoked)
         h == IF i <= Len(a.invoked) THEN a.invoked[i].handler ELSE NoHandler
         called == i <= Len(a.invoked) /\ a.args[i] # "TypeError"
         stays == i <= Len(a.invoked) /\ called /\ yields(h)
     IN /\ subscriptions' = IF called THEN body(subscriptions, h)
                            ELSE subscriptions
        /\ deliveredMax' = IF called THEN MaxOf(deliveredMax, a.ts)
                           ELSE deliveredMax
        /\ tasks' = IF last /\ ~stays
                    THEN [tasks EXCEPT !.begun = RemoveAt(@, k),
                                       !.finished = @ + 1]
                    ELSE [tasks EXCEPT !.begun[k].at = i,
                                       !.begun[k].yielded = stays]
        /\ lastOp' = [Op(IF called THEN "call" ELSE "return") EXCEPT
                        !.handler = h, !.call = a.n, !.ts = a.ts]
  /\ UNCHANGED <<flavor, env, configFrom, fromTimestampMs, latestTimestampMs,
                 cache, eventSource, isConnected, conns, waiters,
                 dispatchedMax, sessionMax, priorMax, cacheGetCalls>>

On(pattern, handler) ==
  /\ subscriptions' = on(subscriptions, pattern, handler)
  /\ lastOp' = [Op("on") EXCEPT !.pattern = pattern, !.handler = handler]
  /\ UNCHANGED <<flavor, env, configFrom, fromTimestampMs, latestTimestampMs,
                 cache, eventSource, isConnected, conns, dispatchedMax,
                 sessionMax, deliveredMax, priorMax, cacheGetCalls, waiters,
                 tasks>>

\* onAll(handler)
OnAll(handler) ==
  /\ subscriptions' = on(subscriptions, Star, handler)
  /\ lastOp' = [Op("on") EXCEPT !.pattern = Star, !.handler = handler]
  /\ UNCHANGED <<flavor, env, configFrom, fromTimestampMs, latestTimestampMs,
                 cache, eventSource, isConnected, conns, dispatchedMax,
                 sessionMax, deliveredMax, priorMax, cacheGetCalls, waiters,
                 tasks>>

\* onEvent(eventTypeName, handler), a method of the package client
OnEvent(eventTypeName, handler) ==
  /\ flavor = "A"
  /\ subscriptions' = on(subscriptions, eventTypeName, handler)
  /\ lastOp' = [Op("on") EXCEPT !.pattern = eventTypeName, !.handler = handler]
  /\ UNCHANGED <<flavor, env, configFrom, fromTimestampMs, latestTimestampMs,
                 cache, eventSource, isConnected, conns, dispatchedMax,
                 sessionMax, deliveredMax, priorMax, cacheGetCalls, waiters,
                 tasks>>

Off(pattern, handler) ==
  /\ subscriptions' = off(subscriptions, pattern, handler)
  /\ lastOp' = [Op("off") EXCEPT !.pattern = pattern, !.handler = handler]
  /\ UNCHANGED <<flavor, env, configFrom, fromTimestampMs, latestTimestampMs,
                 cache, eventSource, isConnected, conns, dispatchedMax,
                 sessionMax, deliveredMax, priorMax, cacheGetCalls, waiters,
                 tasks>>

OffAll(pattern) ==
  /\ subscriptions' = Delete(subscriptions, pattern)
  /\ lastOp' = [Op("off") EXCEPT !.pattern = pattern]
  /\ UNCHANGED <<flavor, env, configFrom, fromTimestampMs, latestTimestampMs,
                 cache, eventSource, isConnected, conns, dispatchedMax,
                 sessionMax, deliveredMax, priorMax, cacheGetCalls, waiters,
                 tasks>>

\* waitFor(eventType, timeout): the closure is registered, the timer armed
\* when timeout is truthy
WaitFor(eventType, timeout) ==
  /\ Len(waiters) < Len(WaiterIds)
  /\ LET handler == WaiterIds[Len(waiters) + 1]
     IN /\ waiters' = Append(waiters, NewWaiter(eventType, timeout))
        /\ subscriptions' = on(subscriptions, eventType, handler)
        /\ lastOp' = [Op("waitFor") EXCEPT !.pattern = eventType,
                                           !.handler = handler]
  /\ UNCHANGED <<flavor, env, configFrom, fromTimestampMs, latestTimestampMs,
                 cache, eventSource, isConnected, conns, dispatchedMax,
                 sessionMax, deliveredMax, priorMax, cacheGetCalls, tasks>>

\* variant: the timer rejects and leaves the closure registered
WaiterTimeout_KeepsHandler(k) ==
  /\ waiters[k].timer = "armed"
  /\ waiters' = [waiters EXCEPT ![k].timer = "fired",
                                ![k].promise = Settle(@, "rejected")]
  /\ subscriptions' = subscriptions
  /\ lastOp' = [Op("timeout") EXCEPT !.pattern = waiters[k].pattern,
                                     !.handler = WaiterIds[k]]
  /\ UNCHANGED <<flavor, env, configFrom, fromTimestampMs, latestTimestampMs,
                 cache, eventSource, isConnected, conns, dispatchedMax,
                 sessionMax, deliveredMax, priorMax, cacheGetCalls, tasks>>

\* the timer of a waitFor() call fires
WaiterTimeout(k) ==
  /\ waiters[k].timer = "armed"
  /\ waiters' = [waiters EXCEPT ![k].timer = "fired",
                                ![k].promise = Settle(@, "rejected")]
  /\ subscriptions' = off(subscriptions, waiters[k].pattern, WaiterIds[k])
  /\ lastOp' = [Op("timeout") EXCEPT !.pattern = waiters[k].pattern,
                                     !.handler = WaiterIds[k]]
  /\ UNCHANGED <<flavor, env, configFrom, fromTimestampMs, latestTimestampMs,
                 cache, eventSource, isConnected, conns, dispatchedMax,
                 sessionMax, deliveredMax, priorMax, cacheGetCalls, tasks>>

\* Cursor handling: every cache content and override, all timestamps, over
\* native transports that open and deliver, for a caller that registers its
\* handlers before connecting, unregisters them at any time, and lets each
\* transport open before calling connect() again
CursorEvents ==
  [type : EventTypes, ts : OptTimestamps, data : {ObjectData}]
    \cup {[type |-> EmptyType, ts |-> MaxTs, data |-> ObjectData]}

CursorPatterns == {Star, NameF}

InitCursor == Constructed /\ env = "native"

NextCursor ==
  \/ /\ Len(conns) < MaxConnects
     /\ \A k \in DOMAIN conns : conns[k].rs # "connecting"
     /\ Connect
  \/ Disconnect
  \/ \E c \in DOMAIN conns : TransportOpen(c)
  \/ \E c \in DOMAIN conns, event \in CursorEvents : TransportMessage(c, event)
  \/ /\ conns = <<>>
     /\ CountRegs(subscriptions) < MaxRegs
     /\ \E pattern \in CursorPatterns, handler \in HandlerSet : On(pattern, handler)
  \/ \E pattern \in CursorPatterns, handler \in HandlerSet :
       Has(subscriptions, pattern) /\ Off(pattern, handler)

SpecCursor == InitCursor /\ [][NextCursor]_vars

\* Connection lifecycle: both transports, failing and retrying, connect()
\* calls that overlap, with a cache that starts empty and at most one
\* handler, registered before connecting
LifecycleEvents == {[type |-> TypeAF, ts |-> 1, data |-> ObjectData]}

LifecyclePatterns == {GlobA}

InitLifecycle == Constructed /\ configFrom = Undefined /\ cache = NoEntry

NextLifecycle ==
  \/ Len(conns) < MaxConnects /\ Connect
  \/ Disconnect
  \/ \E c \in DOMAIN conns : TransportOpen(c)
  \/ \E c \in DOMAIN conns, fatal \in BOOLEAN : TransportError(c, fatal)
  \/ \E c \in DOMAIN conns, event \in LifecycleEvents : TransportMessage(c, event)
  \/ /\ conns = <<>>
     /\ subscriptions = <<>>
     /\ \E pattern \in LifecyclePatterns, handler \in HandlerSet : On(pattern, handler)

SpecLifecycle == InitLifecycle /\ [][NextLifecycle]_vars

\* Sessions that follow one another on either transport: connect() is called
\* only while no transport is held, transports fail and retry, and the
\* network lets a transport that keeps trying to connect get through
NextSessions ==
  \/ /\ Len(conns) < MaxConnects
     /\ eventSource = Null
     /\ Connect
  \/ Disconnect
  \/ \E c \in DOMAIN conns : TransportOpen(c)
  \/ \E c \in DOMAIN conns, fatal \in BOOLEAN : TransportError(c, fatal)
  \/ \E c \in DOMAIN conns, event \in LifecycleEvents : TransportMessage(c, event)

SpecSessions ==
  /\ InitLifecycle
  /\ [][NextSessions]_vars
  /\ \A c \in 1..(MaxConnects + 1) :
       WF_vars(c \in DOMAIN conns /\ TransportOpen(c))

\* Reconnecting: the Deepbook client on the native transport, over one more
\* connect() than the other specifications allow, with errors and retries
TeardownEvents == {[type |-> TypeAF, ts |-> 1, data |-> ObjectData]}

InitTeardown ==
  Constructed /\ flavor = "B" /\ env = "native" /\ configFrom = Undefined
              /\ cache = NoEntry

NextTeardown ==
  \/ Len(conns) < MaxConnects + 1 /\ Connect
  \/ Disconnect
  \/ \E c \in DOMAIN conns : TransportOpen(c)
  \/ \E c \in DOMAIN conns, fatal \in BOOLEAN : TransportError(c, fatal)
  \/ \E c \in DOMAIN conns, event \in TeardownEvents : TransportMessage(c, event)

SpecTeardown == InitTeardown /\ [][NextTeardown]_vars

\* The registry and the dispatcher: a connected package client, its caller
\* registering two handlers under an exact type, a short name, '*' and a
\* glob, and unregistering them, while events arrive
RegistryHandlers == {"h1", "h2"}

RegistryPatterns == {TypeAF, NameF, Star, GlobA}

RegistryEvents == {[type |-> TypeAF, ts |-> Undefined, data |-> ObjectData]}

InitRegistry ==
  Constructed /\ flavor = "A" /\ env = "native" /\ configFrom = Undefined
              /\ cache = NoEntry

NextRegistry ==
  \/ conns = <<>> /\ Connect
  \/ \E c \in DOMAIN conns : TransportOpen(c)
  \/ /\ isConnected
     /\ CountRegs(subscriptions) < MaxSubs
     /\ \/ \E pattern \in {TypeAF, GlobA}, handler \in RegistryHandlers :
             On(pattern, handler)
        \/ \E handler \in RegistryHandlers : OnAll(handler)
        \/ \E handler \in RegistryHandlers : OnEvent(NameF, handler)
  \/ \E pattern \in RegistryPatterns, handler \in RegistryHandlers :
       Has(subscriptions, pattern) /\ Off(pattern, handler)
  \/ \E pattern \in RegistryPatterns :
       Has(subscriptions, pattern) /\ OffAll(pattern)
  \/ \E c \in DOMAIN conns, event \in RegistryEvents : TransportMessage(c, event)

SpecRegistry == InitRegistry /\ [][NextRegistry]_vars

\* Delivery: a connected client of either class with few registrations,
\* one of them possibly a glob that is no regular expression; events whose
\* data has contents, falsy contents, or none
DeliveryEvents ==
  [type : {TypeAF}, ts : {Undefined}, data : {ObjectData, ZeroData, BareData}]

InitDelivery ==
  Constructed /\ env = "native" /\ configFrom = Undefined /\ cache = NoEntry

NextDelivery ==
  \/ conns = <<>> /\ Connect
  \/ \E c \in DOMAIN conns : TransportOpen(c)
  \/ /\ isConnected
     /\ CountRegs(subscriptions) < MaxRegs + 1
     /\ \E pattern \in RegistryPatterns \cup {OpenGroupGlob},
             handler \in HandlerSet :
          On(pattern, handler)
  \/ \E pattern \in RegistryPatterns \cup {OpenGroupGlob},
        handler \in HandlerSet :
       Has(subscriptions, pattern) /\ Off(pattern, handler)
  \/ \E c \in DOMAIN conns, event \in DeliveryEvents : TransportMessage(c, event)

SpecDelivery == InitDelivery /\ [][NextDelivery]_vars

\* Waiting for events: waitFor() calls with and without a timeout, made
\* after the caller's own registrations, which the caller may take back at
\* any time; timers firing, events arriving whose type has a module part or
\* is a bare name
WaiterPatterns == {TypeAF, Star, NameF}

WaiterEvents == [type : {TypeAF, NameF}, ts : {Undefined}, data : {ObjectData}]

InitWaiters ==
  Constructed /\ env = "native" /\ configFrom = Undefined /\ cache = NoEntry

NextWaiters ==
  \/ conns = <<>> /\ Connect
  \/ \E c \in DOMAIN conns : TransportOpen(c)
  \/ /\ isConnected
     /\ waiters = <<>>
     /\ CountRegs(subscriptions) < MaxRegs
     /\ \/ \E handler \in HandlerSet : On(TypeAF, handler)
        \/ \E handler \in HandlerSet : OnAll(handler)
        \/ \E handler \in HandlerSet : OnEvent(NameF, handler)
  \/ /\ isConnected
     /\ Len(waiters) < MaxWaiters
     /\ \E pattern \in WaiterPatterns, timeout \in {Undefined, 0, 1} :
          WaitFor(pattern, timeout)
  \/ \E pattern \in WaiterPatterns, handler \in HandlerSet :
       Has(subscriptions, pattern) /\ Off(pattern, handler)
  \/ \E pattern \in WaiterPatterns :
       Has(subscriptions, pattern) /\ OffAll(pattern)
  \/ \E k \in DOMAIN waiters : WaiterTimeout(k)
  \/ \E c \in DOMAIN conns, event \in WaiterEvents : TransportMessage(c, event)

SpecWaiters == InitWaiters /\ [][NextWaiters]_vars

\* The pattern matcher alone: matchesPattern applied to every event type and
\* every pattern of up to MaxGlobLen characters, over letters of both cases,
\* the punctuation of type names and '.', patterns with '*' as well; the
\* function keeps no state, so one application per behaviour covers it
GlobChars == {"a", "A", ".", ":", "_"}

GlobStrings(chars) == UNION {[1..n -> chars] : n \in 0..MaxGlobLen}

MatchesPattern(eventType, pattern) ==
  /\ lastOp' = [Op("matchesPattern") EXCEPT
                  !.type = eventType,
                  !.pattern = pattern,
                  !.passed = matchesPattern(eventType, pattern)]
  /\ UNCHANGED <<flavor, env, configFrom, fromTimestampMs, latestTimestampMs,
                 cache, eventSource, isConnected, subscriptions, conns,
                 waiters, dispatchedMax, sessionMax, deliveredMax, priorMax,
                 cacheGetCalls, tasks>>

InitGlob ==
  Constructed /\ flavor = "A" /\ env = "native" /\ configFrom = Undefined
              /\ cache = NoEntry

NextGlob ==
  /\ lastOp.op = "init"
  /\ \E eventType \in GlobStrings(GlobChars),
        pattern \in GlobStrings(GlobChars \cup {"*"}) :
       MatchesPattern(eventType, pattern)

SpecGlob == InitGlob /\ [][NextGlob]_vars

\* The base URLs alone: both functions on every network, without a custom
\* URL and with one: the empty string, the fixed URLs themselves, other URLs
\* and short strings a looser test than !customUrl could take for no URL
CustomUrls ==
  {"", " ", "0", "false", "null", "undefined", "NaN", "/", "localhost",
   "http://localhost:8080", "https://custom-api.example.com",
   "https://custom-flux.example.com", "https://ignored-url.com",
   "https://api.surflux.dev", "https://flux.surflux.dev",
   "https://testnet-api.surflux.dev", "https://testnet-flux.surflux.dev"}

GetBaseUrl(kind, network, rest) ==
  /\ lastOp' = [Op("getBaseUrl") EXCEPT
                  !.call = [kind |-> kind, network |-> network, rest |-> rest,
                            result |-> IF kind = "api"
                                       THEN getApiBaseUrl(network, rest)
                                       ELSE getFluxBaseUrl(network, rest)]]
  /\ UNCHANGED <<flavor, env, configFrom, fromTimestampMs, latestTimestampMs,
                 cache, eventSource, isConnected, subscriptions, conns,
                 waiters, dispatchedMax, sessionMax, deliveredMax, priorMax,
                 cacheGetCalls, tasks>>

NextUrls ==
  /\ lastOp.op = "init"
  /\ \E kind \in {"api", "flux"},
        network \in {SurfluxNetwork[k] : k \in DOMAIN SurfluxNetwork},
        rest \in {<<>>} \cup {<<url>> : url \in CustomUrls} :
       GetBaseUrl(kind, network, rest)

SpecUrls == InitGlob /\ [][NextUrls]_vars

\* The same, with the timers of the host: a timer that is armed and neither
\* cancelled nor fired runs its callback after its delay.
SpecWaitersFair ==
  /\ SpecWaiters
  /\ \A k \in 1..(MaxWaiters + 1) :
       WF_vars(k \in DOMAIN waiters /\ WaiterTimeout(k))

\* The message listener: a client of either class with few registrations
\* made before it connects, among them a handler that throws, receiving
\* wrapped and flat messages, messages without a type, and texts that are no
\* JSON object
NormalizerTexts ==
  {RichText, StampedRichText, UntypedRichText, PlainRichText, FlatText,
   EmptyTypeText, NoTypeText, CutText, NullText}

NormalizerPatterns == {Star, TypeFoo, NameFoo, PackageEvent}

NormalizerHandlers == {"h1"} \cup ThrowingHandlers

InitNormalizer ==
  Constructed /\ env = "native" /\ configFrom = Undefined /\ cache = NoEntry

NextNormalizer ==
  \/ conns = <<>> /\ Connect
  \/ \E c \in DOMAIN conns : TransportOpen(c)
  \/ /\ conns = <<>>
     /\ CountRegs(subscriptions) < MaxRegs + 1
     /\ \E pattern \in NormalizerPatterns, handler \in NormalizerHandlers :
          On(pattern, handler)
  \/ \E c \in DOMAIN conns, text \in NormalizerTexts : TransportText(c, text)

SpecNormalizer == InitNormalizer /\ [][NextNormalizer]_vars

\* Failing helpers: caches whose get and/or set throw, platforms with the
\* native EventSource or with none at all, transports that fail and retry,
\* waitFor() with a timeout; the caller holds one transport at a time
FailureCaches ==
  {NoEntry, Entry(toString(1)),
   Failing(Entry(toString(1)), {"get"}),
   Failing(NoEntry, {"set"}),
   Failing(Entry(toString(1)), {"get", "set"})}

\* the state after construction on one of the platforms envs, with one of
\* the caches and one of the fromTimestampMs settings
Started(envs, caches, configs) ==
  /\ flavor \in {"A", "B"}
  /\ env \in envs
  /\ configFrom \in configs
  /\ fromTimestampMs = configFrom
  /\ latestTimestampMs = Undefined
  /\ cache \in caches
  /\ eventSource = Null
  /\ isConnected = FALSE
  /\ subscriptions = <<>>
  /\ conns = <<>>
  /\ waiters = <<>>
  /\ dispatchedMax = Undefined
  /\ sessionMax = Undefined
  /\ deliveredMax = Undefined
  /\ priorMax = Undefined
  /\ cacheGetCalls = 0
  /\ tasks = NoTasks
  /\ lastOp = Op("init")

NextFailures ==
  \/ /\ Len(conns) < MaxConnects
     /\ eventSource = Null \/ isConnected
     /\ Connect
  \/ Disconnect
  \/ \E c \in DOMAIN conns : TransportOpen(c)
  \/ \E c \in DOMAIN conns, fatal \in BOOLEAN : TransportError(c, fatal)
  \/ \E c \in DOMAIN conns, event \in LifecycleEvents : TransportMessage(c, event)
  \/ /\ isConnected
     /\ Len(waiters) < MaxWaiters
     /\ WaitFor(TypeAF, 1)
  \/ \E k \in DOMAIN waiters : WaiterTimeout(k)

SpecFailures ==
  Started({"native", "absent"}, FailureCaches, {Undefined})
    /\ [][NextFailures]_vars

\* Rewinding: a client given fromTimestampMs 0 on a cache that already holds
\* the cursor MaxTs, over sessions that follow one another
NextRewind ==
  \/ /\ Len(conns) < MaxConnects
     /\ \A k \in DOMAIN conns : conns[k].rs # "connecting"
     /\ Connect
  \/ Disconnect
  \/ \E c \in DOMAIN conns : TransportOpen(c)
  \/ \E c \in DOMAIN conns, ts \in OptTimestamps :
       TransportMessage(c, [type |-> TypeAF, ts |-> ts, data |-> ObjectData])

SpecRewind ==
  Started({"native"}, {Entry(toString(MaxTs))}, {0}) /\ [][NextRewind]_vars

\* A client that subscribes late: no override, a cache holding "0", events
\* with timestamp 1 arriving before and after on('*', handler).
NextCatchUp ==
  \/ /\ Len(conns) < MaxConnects
     /\ \A k \in DOMAIN conns : conns[k].rs # "connecting"
     /\ Connect
  \/ Disconnect
  \/ \E c \in DOMAIN conns : TransportOpen(c)
  \/ \E c \in DOMAIN conns, event \in LifecycleEvents : TransportMessage(c, event)
  \/ /\ CountRegs(subscriptions) < MaxRegs
     /\ \E handler \in HandlerSet : On(Star, handler)

SpecCatchUp ==
  Started({"native"}, {Entry(toString(0))}, {Undefined})
    /\ [][NextCatchUp]_vars

\* The client revision whose onEvent looks for generated types: finding
\* package-info.json and types.ts it registers the handler under the glob
\* `${packageId}::*::${eventTypeName}` and then under eventTypeName; in every
\* other case under eventTypeName only.
PackageId == <<"0", "x", "a", "b", "c">>

fullEventTypePattern(packageId, eventTypeName) ==
  packageId \o <<":", ":", "*", ":", ":">> \o eventTypeName

onEvent(subs, eventTypeName, handler, typesFound) ==
  IF typesFound
  THEN on(on(subs, fullEventTypePattern(PackageId, eventTypeName), handler),
          eventTypeName, handler)
  ELSE on(subs, eventTypeName, handler)

OnEventGenerated(eventTypeName, handler, typesFound) ==
  /\ flavor = "A"
  /\ subscriptions' = onEvent(subscriptions, eventTypeName, handler, typesFound)
  /\ lastOp' = [Op("onEvent") EXCEPT
                  !.pattern = eventTypeName, !.handler = handler]
  /\ UNCHANGED <<flavor, env, configFrom, fromTimestampMs, latestTimestampMs,
                 cache, eventSource, isConnected, conns, dispatchedMax,
                 sessionMax, deliveredMax, priorMax, cacheGetCalls, waiters,
                 tasks>>

\* Handlers are registered through onEvent only, and only while registered
\* nowhere; the events carry a type of the client's package.
NextTyped ==
  \/ conns = <<>> /\ Connect
  \/ \E c \in DOMAIN conns : TransportOpen(c)
  \/ \E handler \in RegistryHandlers, typesFound \in BOOLEAN :
       /\ \A i \in DOMAIN subscriptions :
            \A j \in DOMAIN subscriptions[i].handlers :
              subscriptions[i].handlers[j] # handler
       /\ OnEventGenerated(NameFoo, handler, typesFound)
  \/ \E pattern \in {NameFoo, fullEventTypePattern(PackageId, NameFoo)},
        handler \in RegistryHandlers :
       Has(subscriptions, pattern) /\ Off(pattern, handler)
  \/ \E c \in DOMAIN conns, data \in {ObjectData, ZeroData, BareData} :
       TransportMessage(c, [type |-> TypeFoo, ts |-> Undefined, data |-> data])

SpecTyped == InitRegistry /\ [][NextTyped]_vars

\* Handlers that change the registry while an event is being dispatched
NextReentry ==
  \/ conns = <<>> /\ Connect
  \/ \E c \in DOMAIN conns : TransportOpen(c)
  \/ /\ CountRegs(subscriptions) < MaxSubs
     /\ \E handler \in HandlerSet \cup CallingHandlers : On(TypeAF, handler)
  \/ /\ CountRegs(subscriptions) < MaxSubs
     /\ \E c \in DOMAIN conns : TransportMessage(c, CHOOSE e \in RegistryEvents : TRUE)

SpecReentry == InitDelivery /\ [][NextReentry]_vars

\* The listener taken step by step, with messages arriving at any moment,
\* also while handlers run
NextSteps ==
  \/ conns = <<>> /\ Connect
  \/ \E c \in DOMAIN conns : TransportOpen(c)
  \/ /\ StackFree
     /\ CountRegs(subscriptions) < MaxRegs + 1
     /\ \E handler \in HandlerSet \cup CallingHandlers : On(TypeAF, handler)
  \/ /\ tasks.arrived < MaxTasks
     /\ \E c \in DOMAIN conns :
          Arrive(c, Returned(CHOOSE e \in RegistryEvents : TRUE))
  \/ Begin
  \/ \E k \in 1..MaxTasks : Call(k)

SpecSteps == InitDelivery /\ [][NextSteps]_vars

----------------------------------------------------------------------------
(* Cursor properties, checked under SpecCursor *)

HandledMessage(o) == o.op = "message" /\ o.type # EmptyType

\* C1: without an explicit override, when the current transport was created
\* after a disconnect() (or by the Deepbook client's connect() tearing the
\* previous one down), a message of that transport whose timestamp is at
\* most the highest timestamp handed to a handler before the transport was
\* created is passed to no handler.
C1_NoRedelivery ==
  (/\ configFrom = Undefined
   /\ HandledMessage(lastOp)
   /\ lastOp.c = eventSource
   /\ conns[lastOp.c].afterSave
   /\ lastOp.ts # Undefined
   /\ lastOp.ts <= priorMax)
    => lastOp.invoked = <<>>

\* C2: an event with non-empty type and timestamp T is dispatched (every
\* matching handler is called, latestTimestampMs takes T in) if and only if T
\* is undefined, the threshold C is undefined, or T > C; otherwise no handler
\* is called and latestTimestampMs keeps its value.
C2_CursorFilter ==
  [][HandledMessage(lastOp') =>
       LET T == lastOp'.ts
           C == fromTimestampMs
           fresh == T = Undefined \/ C = Undefined \/ T > C
       IN /\ lastOp'.passed <=> fresh
          /\ fresh => lastOp'.invoked =
                        handlerEntries(flavor, subscriptions, lastOp'.type)
          /\ ~fresh => /\ lastOp'.invoked = <<>>
                       /\ latestTimestampMs' = latestTimestampMs
          /\ fromTimestampMs' = C]_vars

C2_Witness ==
  /\ HandledMessage(lastOp)
  /\ fromTimestampMs # Undefined
  /\ lastOp.ts = fromTimestampMs
  /\ Has(subscriptions, Star)
  /\ lastOp.invoked = <<>>
  /\ ~lastOp.passed

\* C3 as first stated: once an event with timestamp T1 was dispatched in the
\* session, a later event of the session with T <= T1 reaches no handler.
C3_Original ==
  [][(/\ HandledMessage(lastOp')
      /\ lastOp'.ts # Undefined
      /\ lastOp'.ts <= sessionMax)
       => lastOp'.invoked = <<>>]_vars

\* C3 amended: dispatching an event does not raise the filter threshold: a
\* later event with T <= T1 is dropped exactly when T <= fromTimestampMs, the
\* threshold set at connect; T1 only enters latestTimestampMs.
C3_ThresholdFixed ==
  [][(/\ HandledMessage(lastOp')
      /\ lastOp'.ts # Undefined
      /\ lastOp'.ts <= sessionMax)
       => /\ lastOp'.passed <=>
               ~(fromTimestampMs # Undefined /\ lastOp'.ts <= fromTimestampMs)
          /\ fromTimestampMs' = fromTimestampMs
          /\ latestTimestampMs' = latestTimestampMs
          /\ latestTimestampMs >= sessionMax]_vars

C3_Witness ==
  /\ HandledMessage(lastOp)
  /\ lastOp.ts # Undefined
  /\ lastOp.ts < sessionMax
  /\ lastOp.passed
  /\ lastOp.invoked # <<>>

\* C4 as first stated: after a disconnect() that ends a session, the cache
\* holds the decimal string of the highest timestamp dispatched in the
\* session that just ended, and is unchanged if that session dispatched no
\* timestamp.  (Stated for a client given an override, whose sessions each
\* began with no transport held.)
C4_Original ==
  [][(/\ lastOp'.disconnectRan
      /\ configFrom # Undefined
      /\ eventSource # Null
      /\ conns[eventSource].afterSave) =>
       IF sessionMax # Undefined
       THEN cache' = Entry(toString(sessionMax))
       ELSE cache' = cache]_vars

\* C4 amended: after disconnect() the cache holds the decimal string of the
\* highest timestamp dispatched by the instance since it was constructed, and
\* is unchanged if no dispatched event ever carried a timestamp.
C4_PersistedCursor ==
  [][lastOp'.disconnectRan =>
       IF dispatchedMax # Undefined
       THEN cache' = Entry(toString(dispatchedMax))
       ELSE cache' = cache]_vars

C4_Witness ==
  /\ lastOp.op = "disconnect"
  /\ sessionMax # Undefined
  /\ sessionMax < dispatchedMax
  /\ cache = Entry(toString(dispatchedMax))

\* C5: with fromTimestampMs given to the constructor, cache.get is never
\* called and the threshold stays the given value.
C5_OverridePriority ==
  configFrom # Undefined =>
    /\ fromTimestampMs = configFrom
    /\ cacheGetCalls = 0

C5_Witness ==
  /\ configFrom # Undefined
  /\ cache.has
  /\ ParseInt(cache.val) \notin {NaN, configFrom}
  /\ lastOp.op = "connect"
  /\ Len(conns) >= 2

\* C6: without an override, a connect() that opens a session leaves the
\* threshold equal to the valid integer the cache held when it was called.
C6_CursorReadAtConnect ==
  [][(/\ lastOp'.op = "connect"
      /\ configFrom = Undefined
      /\ eventSource' # eventSource
      /\ cache.has
      /\ cache.val # <<>>
      /\ ParseInt(cache.val) # NaN)
       => fromTimestampMs' = ParseInt(cache.val)]_vars

\* C7: the cache changes, and cache.set is called, only in an operation that
\* ran disconnect(); every disconnect() call runs the save; the save calls
\* cache.set with the decimal string of latestTimestampMs if and only if
\* latestTimestampMs is defined.
C7_WritesOnlyAtDisconnect ==
  [][/\ (cache' # cache \/ lastOp'.cacheSet) => lastOp'.disconnectRan
     /\ lastOp'.op = "disconnect" => lastOp'.disconnectRan
     /\ lastOp'.op \in {"message", "on", "off", "open", "error"}
          => ~lastOp'.disconnectRan
     /\ lastOp'.disconnectRan =>
          /\ lastOp'.cacheSet <=> latestTimestampMs # Undefined
          /\ latestTimestampMs # Undefined
               => cache' = Entry(toString(latestTimestampMs))
          /\ latestTimestampMs = Undefined => cache' = cache]_vars

C7_Witness ==
  /\ lastOp.op = "disconnect"
  /\ lastOp.cacheSet
  /\ latestTimestampMs # Undefined
  /\ cache = Entry(toString(latestTimestampMs))

----------------------------------------------------------------------------
(* Connection lifecycle properties, checked under SpecLifecycle *)

\* C8: when no connect() was called before the previous one had settled, the
\* promise of a connect() that created a native transport is resolved only
\* once that transport reported open, and is rejected once that transport
\* reported an error before its open.
C8_ConnectCompletion ==
  (\A k \in DOMAIN conns : conns[k].awaited) =>
    \A c \in DOMAIN conns :
      conns[c].kind = "native" =>
        /\ conns[c].promise = "resolved" => conns[c].openReported
        /\ conns[c].errBeforeOpen => conns[c].promise = "rejected"

\* C9: an error reported by a transport that has reported open changes
\* nothing but that transport's own readyState: connected keeps its value
\* (true for the transport the client holds), and the handle, the registry,
\* the cursor values, the cache, every promise and every other transport stay
\* as they were; no transport is created.
C9_PostOpenErrorInert ==
  [][(lastOp'.op = "error" /\ conns[lastOp'.c].openReported) =>
       /\ isConnected' = isConnected
       /\ eventSource = lastOp'.c => isConnected'
       /\ eventSource' = eventSource
       /\ subscriptions' = subscriptions
       /\ fromTimestampMs' = fromTimestampMs
       /\ latestTimestampMs' = latestTimestampMs
       /\ cache' = cache
       /\ Len(conns') = Len(conns)
       /\ \A k \in DOMAIN conns :
            /\ conns'[k].promise = conns[k].promise
            /\ k # lastOp'.c => conns'[k] = conns[k]]_vars

C9_Witness ==
  /\ lastOp.op = "error"
  /\ conns[lastOp.c].openReported
  /\ conns[lastOp.c].promise = "resolved"
  /\ eventSource = lastOp.c
  /\ isConnected
  /\ subscriptions # <<>>
  /\ latestTimestampMs # Undefined

\* C10: when a transport reported an error before open and the promise of
\* its connect() is rejected, connected is false and the client holds no
\* transport that is still live.
C10_FailedConnectDisconnected ==
  (/\ lastOp.op = "error"
   /\ conns[lastOp.c].kind = "native"
   /\ conns[lastOp.c].awaited
   /\ ~conns[lastOp.c].openReported
   /\ conns[lastOp.c].promise = "rejected")
    => /\ ~isConnected
       /\ eventSource = Null \/ conns[eventSource].rs = "closed"

----------------------------------------------------------------------------
(* Reconnecting and disconnecting *)

\* C11: in the package client, a connect() called while connected resolves
\* its promise, creates no transport, leaves every transport and the handle
\* as they were, leaves connected true, and writes nothing to the cache.
C11_ConnectWhileConnectedNoOp ==
  [][(lastOp'.op = "connect" /\ flavor = "A" /\ isConnected) =>
       /\ Len(conns') = Len(conns) + 1
       /\ conns'[Len(conns')].kind = "none"
       /\ conns'[Len(conns')].promise = "resolved"
       /\ \A k \in DOMAIN conns : conns'[k] = conns[k]
       /\ eventSource' = eventSource
       /\ isConnected'
       /\ cache' = cache
       /\ ~lastOp'.cacheSet
       /\ ~lastOp'.disconnectRan]_vars

C11_Witness ==
  /\ lastOp.op = "connect"
  /\ flavor = "A"
  /\ isConnected
  /\ eventSource # Null
  /\ conns[eventSource].rs = "open"
  /\ conns[Len(conns)].kind = "none"
  /\ conns[Len(conns)].promise = "resolved"
  /\ latestTimestampMs # Undefined
  /\ ~cache.has

\* C12: in the Deepbook client, a connect() called while connected runs the
\* tear-down (the save included), leaves the transport it held closed and
\* connected false, and creates the new transport, which is connecting.
C12_ConnectWhileConnectedTearsDown ==
  [][(lastOp'.op = "connect" /\ flavor = "B" /\ isConnected) =>
       /\ lastOp'.disconnectRan
       /\ eventSource # Null => conns'[eventSource].rs = "closed"
       /\ ~isConnected'
       /\ eventSource' = Len(conns) + 1
       /\ conns'[eventSource'].rs = "connecting"]_vars

\* C13: at most one transport created by the instance is not closed, and it
\* is the one this.eventSource refers to.
C13_SingleTransport ==
  \A k \in DOMAIN conns :
    (conns[k].kind # "none" /\ conns[k].rs # "closed") => k = eventSource

\* C14: once disconnect() has closed the transport and until connect() is
\* called again (the client holds no transport and is not connected), no
\* message leads to a handler call.
C14_DisconnectStopsDispatch ==
  [][(/\ lastOp'.op = "message"
      /\ conns # <<>>
      /\ eventSource = Null
      /\ ~isConnected)
       => lastOp'.invoked = <<>>]_vars

\* C15: disconnect() called while the client holds no transport changes
\* neither the connection state, nor the registry, nor the cursor values,
\* nor the cache contents.
C15_DisconnectWhenIdle ==
  [][(lastOp'.op = "disconnect" /\ eventSource = Null) =>
       /\ eventSource' = Null
       /\ isConnected' = isConnected
       /\ conns' = conns
       /\ subscriptions' = subscriptions
       /\ fromTimestampMs' = fromTimestampMs
       /\ latestTimestampMs' = latestTimestampMs
       /\ cache' = cache]_vars

----------------------------------------------------------------------------
(* The registry and the dispatcher, checked under SpecRegistry and
   SpecDelivery *)

HandlersOf(entries) == [i \in 1..Len(entries) |-> entries[i].handler]

RECURSIVE Flatten(_)
Flatten(entries) ==
  IF entries = <<>> THEN <<>>
  ELSE Head(entries).handlers \o Flatten(Tail(entries))

\* C16: the package client calls, for one dispatched event, the handlers of
\* the entry equal to the full type, then those of the entry equal to the
\* short name, then those of the '*' entry, then those of every other entry
\* containing '*' that matches the type, in registry order; exactly the
\* handlers of the '*' entry are called with the event itself.
C16_MatchPrecedence ==
  [][(HandledMessage(lastOp') /\ lastOp'.passed /\ flavor = "A") =>
       LET type == lastOp'.type
           IsGlob(e) == /\ e.pattern # Star
                        /\ Includes(e.pattern, "*")
                        /\ matchesPattern(type, e.pattern)
           exact == Get(subscriptions, type)
           short == Get(subscriptions, ShortName(type))
           star == Get(subscriptions, Star)
           globs == Flatten(SelectSeq(subscriptions, IsGlob))
           inv == lastOp'.invoked
           lo == Len(exact) + Len(short)
       IN /\ HandlersOf(inv) = exact \o short \o star \o globs
          /\ \A i \in DOMAIN inv :
               /\ inv[i].isWildcard <=> (i > lo /\ i <= lo + Len(star))
               /\ lastOp'.args[i] = "event" <=> inv[i].isWildcard]_vars

C16_Witness ==
  /\ HandledMessage(lastOp)
  /\ flavor = "A"
  /\ Len(subscriptions) = 4
  /\ subscriptions[1].pattern = GlobA
  /\ subscriptions[2].pattern = Star
  /\ subscriptions[3].pattern = NameF
  /\ subscriptions[4].pattern = TypeAF
  /\ HandlersOf(lastOp.invoked) = <<"h2", "h1", "h2", "h1">>
  /\ lastOp.args = <<"contents", "contents", "event", "contents">>

\* C17: on(pattern, h) appends h to the end of the entry of pattern, also
\* when h is already in it, and changes no other entry; a dispatched event
\* calls the handlers of the entry equal to its type, and those of the '*'
\* entry, once per registration, in the order of registration.
C17_RegistrationOrder ==
  [][/\ lastOp'.op = "on" =>
          /\ Get(subscriptions', lastOp'.pattern) =
               Append(Get(subscriptions, lastOp'.pattern), lastOp'.handler)
          /\ \A i \in DOMAIN subscriptions :
               subscriptions[i].pattern # lastOp'.pattern
                 => subscriptions'[i] = subscriptions[i]
          /\ Len(subscriptions') <= Len(subscriptions) + 1
     /\ (HandledMessage(lastOp') /\ lastOp'.passed) =>
          LET IsWild(e) == e.isWildcard
              exact == Get(subscriptions, lastOp'.type)
          IN /\ HandlersOf(SelectSeq(lastOp'.invoked, IsWild)) =
                  Get(subscriptions, Star)
             /\ SubSeq(HandlersOf(lastOp'.invoked), 1, Len(exact)) = exact]_vars

C17_Witness ==
  /\ HandledMessage(lastOp)
  /\ Len(subscriptions) = 1
  /\ subscriptions[1].pattern = Star
  /\ subscriptions[1].handlers = <<"h2", "h1", "h2">>
  /\ HandlersOf(lastOp.invoked) = <<"h2", "h1", "h2">>

\* C18: off(pattern, handler) removes from the entry of pattern the first
\* occurrence of handler and nothing else, keeping the order of the rest (the
\* entry goes when nothing is left); off(pattern) removes the whole entry;
\* every other entry stays as it was, and none is added.
C18_OffRemovesFirst ==
  [][lastOp'.op = "off" =>
       LET p == lastOp'.pattern
           h == lastOp'.handler
           hs == Get(subscriptions, p)
       IN /\ \A i \in DOMAIN subscriptions :
               subscriptions[i].pattern # p =>
                 Get(subscriptions', subscriptions[i].pattern) =
                   subscriptions[i].handlers
          /\ \A i \in DOMAIN subscriptions' :
               Has(subscriptions, subscriptions'[i].pattern)
          /\ IF h = NoHandler THEN ~Has(subscriptions', p)
             ELSE IF \E i \in DOMAIN hs : hs[i] = h
                  THEN \E i \in DOMAIN hs :
                         /\ hs[i] = h
                         /\ \A k \in 1..(i - 1) : hs[k] # h
                         /\ Get(subscriptions', p) =
                              [j \in 1..(Len(hs) - 1) |->
                                 IF j < i THEN hs[j] ELSE hs[j + 1]]
                  ELSE Get(subscriptions', p) = hs]_vars

C18_Witness ==
  /\ lastOp.op = "off"
  /\ lastOp.pattern = Star
  /\ lastOp.handler = "h1"
  /\ Len(subscriptions) = 2
  /\ subscriptions[1].pattern = Star
  /\ subscriptions[1].handlers = <<"h2", "h1">>
  /\ CountRegs(subscriptions) = MaxSubs - 1

\* C20: in the package client a handler matched through a pattern other
\* than '*' is called with data.contents when the data of the event has a
\* contents field, and with the data when it has none.
C20_ContentsOnly ==
  [][(HandledMessage(lastOp') /\ lastOp'.passed /\ flavor = "A") =>
       \A i \in DOMAIN lastOp'.invoked :
         ~lastOp'.invoked[i].isWildcard =>
           lastOp'.args[i] =
             IF lastOp'.data.contents # "undefined" THEN "contents"
             ELSE "data"]_vars

----------------------------------------------------------------------------
(* Waiting for events, checked under SpecWaiters *)

\* C19: no entry of the subscriptions map has an empty handler sequence.
C19_NoEmptyEntry ==
  \A i \in DOMAIN subscriptions : subscriptions[i].handlers # <<>>

C19_Witness ==
  /\ lastOp.op \in {"message", "timeout"}
  /\ waiters # <<>>
  /\ waiters[1].promise # "pending"
  /\ ~Has(subscriptions, waiters[1].pattern)
  /\ subscriptions # <<>>

----------------------------------------------------------------------------
(* The message listener, checked under SpecNormalizer *)

\* a message of the package client that was dispatched
DispatchedByPackageClient(o) == HandledMessage(o) /\ o.passed /\ flavor = "A"

\* C21: in the package client every handler of the '*' entry is called for
\* a dispatched message, and with the message as it was received: the
\* wrapper itself when the message came wrapped, the event when it came flat;
\* it is not called with the data of the event or with its contents.
C21_FullEnvelope ==
  [][DispatchedByPackageClient(lastOp') =>
       LET o == lastOp'
           IsWild(e) == e.isWildcard
           rich == /\ TypeOf(o.parsed.value) = PackageEvent
                   /\ Field(o.parsed.value.data, "event_type", EmptyType)
                        # EmptyType
       IN /\ HandlersOf(SelectSeq(o.invoked, IsWild)) = Get(subscriptions, Star)
          /\ \A i \in DOMAIN o.invoked :
               o.invoked[i].isWildcard =>
                 /\ o.payloads[i] = o.parsed.value
                 /\ o.payloads[i] # o.event.data
                 /\ o.args[i] \notin {"data", "contents"}
                 /\ rich => o.payloads[i].type = PackageEvent
                 /\ ~rich => o.payloads[i] = o.event]_vars

C21_Witness ==
  /\ DispatchedByPackageClient(lastOp)
  /\ lastOp.parsed = JSONParse(StampedRichText)
  /\ Len(lastOp.invoked) = 2
  /\ lastOp.invoked[1].isWildcard
  /\ lastOp.invoked[2].isWildcard
  /\ lastOp.args = <<"full", "full">>

\* the package client dispatched the message
\*   {type: 'package_event',
\*    data: {event_type: '0xabc::mod::Foo', contents: {x: 1}}}
DispatchedRichText(o) ==
  DispatchedByPackageClient(o) /\ o.parsed = JSONParse(RichText)

\* C22, as stated: for that message a handler subscribed with onAll receives
\* the full envelope, whose type field is '0xabc::mod::Foo'.
C22_Original ==
  [][DispatchedRichText(lastOp') =>
       \A i \in DOMAIN lastOp'.invoked :
         lastOp'.invoked[i].isWildcard =>
           /\ "type" \in DOMAIN lastOp'.payloads[i]
           /\ lastOp'.payloads[i].type = TypeFoo]_vars

\* C22, amended: for that message a handler subscribed with onAll is called
\* once per registration with the message as received, whose type field is
\* 'package_event' and whose data.event_type is '0xabc::mod::Foo'.
C22_OnAllReceivesWrapper ==
  [][DispatchedRichText(lastOp') =>
       LET IsWild(e) == e.isWildcard
       IN /\ HandlersOf(SelectSeq(lastOp'.invoked, IsWild)) =
               Get(subscriptions, Star)
          /\ \A i \in DOMAIN lastOp'.invoked :
               lastOp'.invoked[i].isWildcard =>
                 /\ DOMAIN lastOp'.payloads[i] = {"type", "data"}
                 /\ lastOp'.payloads[i].type = PackageEvent
                 /\ lastOp'.payloads[i].data =
                      [event_type |-> TypeFoo, contents |-> FooContents]]_vars

C22_Witness ==
  /\ DispatchedRichText(lastOp)
  /\ lastOp.type = TypeFoo
  /\ subscriptions = <<[pattern |-> Star, handlers |-> <<"h1">>]>>
  /\ HandlersOf(lastOp.invoked) = <<"h1">>
  /\ lastOp.args = <<"full">>

\* C30: the package client calls handleEvent, for a message that came
\* wrapped ('package_event' with a non-empty data.event_type), with an event
\* whose type is that event_type, whose timestamp, checkpoint and
\* transaction are those of the message and whose data has the four fields
\* event_index, sender, event_type and contents of the data of the message;
\* for every other message, with the message itself; the entries collected
\* are those that match the type of that event.
C30_Normalizer ==
  [][(lastOp'.op = "message" /\ flavor = "A" /\ lastOp'.parsed.object) =>
       LET raw == lastOp'.parsed.value
           event == lastOp'.event
           wrapped == /\ "type" \in DOMAIN raw
                      /\ raw.type = PackageEvent
                      /\ "data" \in DOMAIN raw
                      /\ "event_type" \in DOMAIN raw.data
                      /\ raw.data.event_type # EmptyType
           Same(from, to, name) ==
             IF name \in DOMAIN from THEN to[name] = from[name]
             ELSE to[name] = (IF name \in {"ts", "checkpoint_id", "event_index"}
                              THEN Undefined ELSE "undefined")
       IN /\ wrapped =>
               /\ event.type = raw.data.event_type
               /\ DOMAIN event = {"type", "ts", "checkpoint_id", "tx_hash", "data"}
               /\ \A name \in {"ts", "checkpoint_id", "tx_hash"} :
                    Same(raw, event, name)
               /\ DOMAIN event.data =
                    {"event_index", "sender", "event_type", "contents"}
               /\ \A name \in DOMAIN event.data : Same(raw.data, event.data, name)
          /\ ~wrapped => event = raw
          /\ lastOp'.type = (IF "type" \in DOMAIN event THEN event.type
                             ELSE EmptyType)
          /\ lastOp'.passed =>
               lastOp'.matched = handlerEntries(flavor, subscriptions, event.type)
          /\ (~wrapped /\ lastOp'.passed /\ raw.type = PackageEvent) =>
               HandlersOf(lastOp'.matched) =
                 Get(subscriptions, PackageEvent) \o Get(subscriptions, PackageEvent)
                   \o Get(subscriptions, Star)]_vars

C30_Witness ==
  /\ lastOp.op = "message"
  /\ flavor = "A"
  /\ lastOp.parsed = JSONParse(StampedRichText)
  /\ lastOp.ts = 1
  /\ "module" \in DOMAIN lastOp.parsed.value.data
  /\ subscriptions = <<[pattern |-> PackageEvent, handlers |-> <<"h1">>],
                       [pattern |-> NameFoo, handlers |-> <<"h1">>]>>
  /\ HandlersOf(lastOp.invoked) = <<"h1">>
  /\ lastOp.payloads = <<FooContents>>

\* C28: a message that decodes to an object whose type is empty or missing
\* matches no entry and calls no handler, those of '*' included, and leaves
\* latestTimestampMs and the registry as they were, also when the message
\* has a timestamp.
C28_EmptyTypeDiscard ==
  [][(/\ lastOp'.op = "message"
      /\ lastOp'.parsed.object
      /\ ("type" \in DOMAIN lastOp'.event => lastOp'.event.type = EmptyType)) =>
       /\ lastOp'.matched = <<>>
       /\ lastOp'.invoked = <<>>
       /\ ~lastOp'.passed
       /\ latestTimestampMs' = latestTimestampMs
       /\ subscriptions' = subscriptions]_vars

C28_Witness ==
  /\ lastOp.op = "message"
  /\ lastOp.parsed \in {JSONParse(EmptyTypeText), JSONParse(NoTypeText)}
  /\ lastOp.ts = 2
  /\ latestTimestampMs = 1
  /\ Has(subscriptions, Star)
  /\ Has(subscriptions, NameFoo)

\* C29: a message whose text JSON.parse rejects calls no handler and changes
\* neither the cursor nor the registry nor the connection; the listener
\* returns, and the message after it is handled as any other.
C29_MalformedDropped ==
  [][/\ (lastOp'.op = "message" /\ lastOp'.parsed.thrown) =>
          /\ lastOp'.matched = <<>>
          /\ lastOp'.invoked = <<>>
          /\ latestTimestampMs' = latestTimestampMs
          /\ fromTimestampMs' = fromTimestampMs
          /\ cache' = cache
          /\ subscriptions' = subscriptions
          /\ waiters' = waiters
          /\ eventSource' = eventSource
          /\ isConnected' = isConnected
          /\ conns' = conns
     /\ (/\ lastOp.op = "message" /\ lastOp.parsed.thrown
         /\ lastOp'.op = "message" /\ lastOp'.parsed.object
         /\ lastOp'.type # EmptyType
         /\ ~shouldFilterEventByTimestamp(lastOp'.ts, fromTimestampMs)) =>
          /\ lastOp'.passed
          /\ lastOp'.invoked = handlerEntries(flavor, subscriptions, lastOp'.type)
          /\ latestTimestampMs' = MaxOf(latestTimestampMs, lastOp'.ts)]_vars

C29_Witness ==
  /\ lastOp.op = "message"
  /\ lastOp.parsed = JSONParse(CutText)
  /\ lastOp.parsed.thrown
  /\ isConnected
  /\ latestTimestampMs = 2
  /\ CountRegs(subscriptions) = MaxRegs + 1

\* the number of places of seq that hold x
RECURSIVE Occurrences(_, _)
Occurrences(seq, x) ==
  IF seq = <<>> THEN 0
  ELSE (IF Head(seq) = x THEN 1 ELSE 0) + Occurrences(Tail(seq), x)

\* C27: when the type of an event dispatched by the package client has no
\* '::', so that the entry registered under it is found both as the full type
\* and as the short name, every handler of that entry is called twice for the
\* event: the entry's handlers in order, then the same again.
C27_DuplicateAcrossRules ==
  [][(DispatchedByPackageClient(lastOp') /\ ShortName(lastOp'.type) = lastOp'.type) =>
       LET entry == Get(subscriptions, lastOp'.type)
           called == HandlersOf(lastOp'.invoked)
       IN /\ Len(called) >= 2 * Len(entry)
          /\ SubSeq(called, 1, 2 * Len(entry)) = entry \o entry
          /\ \A h \in NormalizerHandlers :
               Occurrences(called, h) =
                 2 * Occurrences(entry, h) + Occurrences(Get(subscriptions, Star), h)]_vars

C27_Witness ==
  /\ DispatchedByPackageClient(lastOp)
  /\ lastOp.parsed = JSONParse(FlatText)
  /\ lastOp.type = NameFoo
  /\ subscriptions = <<[pattern |-> NameFoo, handlers |-> <<"h1">>]>>
  /\ HandlersOf(lastOp.invoked) = <<"h1", "h1">>

\* C23: when a handler called for a dispatched event throws, the handlers
\* of all entries collected for the event are called all the same, in order;
\* latestTimestampMs has been raised as for any event, the registry and the
\* connection are as they were, and the listener returns.
C23_HandlerIsolation ==
  [][(/\ HandledMessage(lastOp') /\ lastOp'.passed
      /\ \E i \in DOMAIN lastOp'.matched :
           lastOp'.matched[i].handler \in ThrowingHandlers) =>
       /\ lastOp'.invoked = lastOp'.matched
       /\ lastOp'.matched = handlerEntries(flavor, subscriptions, lastOp'.type)
       /\ Len(lastOp'.payloads) = Len(lastOp'.matched)
       /\ latestTimestampMs' = MaxOf(latestTimestampMs, lastOp'.ts)
       /\ fromTimestampMs' = fromTimestampMs
       /\ subscriptions' = subscriptions
       /\ eventSource' = eventSource
       /\ isConnected' = isConnected
       /\ conns' = conns]_vars

C23_Witness ==
  /\ HandledMessage(lastOp)
  /\ lastOp.parsed = JSONParse(StampedRichText)
  /\ Len(lastOp.invoked) = 2
  /\ lastOp.invoked[1].handler \in ThrowingHandlers
  /\ lastOp.invoked[2].handler = "h1"
  /\ latestTimestampMs = 1

----------------------------------------------------------------------------
(* waitFor, checked under SpecWaiters and SpecWaitersFair *)

Registered(subs, handler) ==
  \E i \in DOMAIN subs : \E j \in DOMAIN subs[i].handlers :
    subs[i].handlers[j] = handler

CalledIn(o, handler) ==
  o.op = "message" /\ \E i \in DOMAIN o.invoked : o.invoked[i].handler = handler

\* C24: the promise of a waitFor() call is settled at most once and in one
\* way.  It is resolved only by a dispatch that calls its closure, with what
\* the first such call was given, and then its timer, if it had one, is
\* cancelled; it is rejected only by its timer, which then has fired.  Once
\* it is settled its closure is in no entry of the registry, no later
\* dispatch calls the closure, and its timer does not fire.
C24_SettlesOnce ==
  [][\A k \in DOMAIN waiters :
       LET w == waiters[k]
           after == waiters'[k]
           h == WaiterIds[k]
           firstCall == CHOOSE i \in DOMAIN lastOp'.invoked :
                          /\ lastOp'.invoked[i].handler = h
                          /\ \A j \in 1..(i - 1) : lastOp'.invoked[j].handler # h
       IN /\ w.promise # "pending" =>
               /\ after = w
               /\ ~CalledIn(lastOp', h)
               /\ ~(lastOp'.op = "timeout" /\ lastOp'.handler = h)
          /\ (w.promise = "pending" /\ after.promise = "resolved") =>
               /\ CalledIn(lastOp', h)
               /\ after.value = lastOp'.args[firstCall]
               /\ after.timer = (IF w.timer = "armed" THEN "cleared" ELSE "none")
          /\ (w.promise = "pending" /\ after.promise = "rejected") =>
               /\ lastOp'.op = "timeout" /\ lastOp'.handler = h
               /\ w.timer = "armed" /\ after.timer = "fired"
          /\ (w.promise = "pending" /\ CalledIn(lastOp', h)) =>
               after.promise = "resolved"
          /\ after.promise # "pending" => ~Registered(subscriptions', h)]_vars

C24_Witness ==
  /\ waiters # <<>>
  /\ waiters[1].pattern = NameF
  /\ waiters[1].promise = "resolved"
  /\ waiters[1].timer = "cleared"
  /\ lastOp.op = "message"
  /\ lastOp.type = TypeAF
  /\ lastOp.invoked # <<>>
  /\ ~CalledIn(lastOp, WaiterIds[1])
  /\ flavor = "A"

\* C25: a waitFor() call that was given a timeout, 0 included, and whose
\* closure no dispatch calls, is eventually rejected by its timer, and the
\* registry then holds no entry for its closure.
C25_TimeoutRejects ==
  \A k \in 1..(MaxWaiters + 1) :
    (k \in DOMAIN waiters /\ waiters[k].timeout # Undefined)
      ~> /\ k \in DOMAIN waiters
         /\ \/ waiters[k].promise = "resolved"
            \/ /\ waiters[k].promise = "rejected"
               /\ ~Registered(subscriptions, WaiterIds[k])

----------------------------------------------------------------------------
(* matchesPattern, checked under SpecGlob *)

\* str from place i on matches pat from place j on, where '*' stands for any
\* run of characters and every other character for itself
RECURSIVE GlobMatch(_, _, _, _)
GlobMatch(str, i, pat, j) ==
  IF j > Len(pat) THEN i > Len(str)
  ELSE IF pat[j] = "*"
       THEN \E k \in i..(Len(str) + 1) : GlobMatch(str, k, pat, j + 1)
       ELSE i <= Len(str) /\ str[i] = pat[j]
            /\ GlobMatch(str, i + 1, pat, j + 1)

\* C26: matchesPattern(E, P) is true exactly when P is '*' or the whole of E
\* matches P with each '*' standing for any run of characters and every
\* other character of P, '.' included, standing only for itself.
C26_GlobSemantics ==
  lastOp.op = "matchesPattern" =>
    (lastOp.passed <=>
       \/ lastOp.pattern = Star
       \/ GlobMatch(lastOp.type, 1, lastOp.pattern, 1))

----------------------------------------------------------------------------
(* Failures of the cache, the platform and the transport, checked under
   SpecFailures *)

\* C31: a cache failure never reaches the caller.  When cache.get throws
\* during connect() the threshold stays undefined and connect() goes on as
\* with an empty cache: it creates the transport and its promise is pending
\* (or, in the package client when already connected, resolved).  When
\* cache.set throws during disconnect(), disconnect() still completes: the
\* held transport is closed, eventSource is null, connected is false and
\* the cache is left as it was.  A connect() promise is rejected only by a
\* connection failure before open (an error of its transport before its open
\* notification, or no transport at all on this platform), a waitFor()
\* promise only by its timer.
C31_CacheFailuresContained ==
  [][/\ (lastOp'.op = "connect" /\ Throws(cache, "get")) =>
          /\ fromTimestampMs' = Undefined
          /\ cacheGetCalls' = cacheGetCalls + 1
          /\ Len(conns') = Len(conns) + 1
          /\ (env = "native" /\ ~(flavor = "A" /\ isConnected)) =>
               /\ eventSource' = Len(conns')
               /\ conns'[Len(conns')].rs = "connecting"
               /\ conns'[Len(conns')].promise = "pending"
          /\ (flavor = "A" /\ isConnected) =>
               conns'[Len(conns')].promise = "resolved"
     /\ lastOp'.op = "disconnect" =>
          /\ ~lastOp'.rejected
          /\ eventSource' = Null
          /\ isConnected' = FALSE
          /\ \A c \in DOMAIN conns' : conns'[c].rs = "closed"
          /\ Throws(cache, "set") => cache' = cache
     /\ \A c \in DOMAIN conns' :
          /\ conns'[c].promise = "rejected"
          /\ c \in DOMAIN conns => conns[c].promise = "pending"
          => IF c \in DOMAIN conns
             THEN /\ lastOp'.op = "error" /\ lastOp'.c = c
                  /\ ~conns[c].openReported
             ELSE env = "absent" /\ conns'[c].kind = "none"
     /\ \A k \in DOMAIN waiters :
          (waiters[k].promise = "pending" /\ waiters'[k].promise = "rejected")
            => lastOp'.op = "timeout" /\ lastOp'.handler = WaiterIds[k]]_vars

C31_Witness ==
  /\ lastOp.op = "disconnect"
  /\ lastOp.cacheSet
  /\ cache = Failing(Entry(toString(1)), {"get", "set"})
  /\ latestTimestampMs = 1
  /\ cacheGetCalls >= 1
  /\ conns # <<>>
  /\ conns[Len(conns)].openReported
  /\ conns[Len(conns)].rs = "closed"
  /\ eventSource = Null
  /\ ~isConnected

----------------------------------------------------------------------------
(* getApiBaseUrl and getFluxBaseUrl, checked under SpecUrls *)

\* C33: on MAINNET and TESTNET both functions return the network's fixed URL
\* whatever customUrl is; on CUSTOM they return customUrl when it is a
\* non-empty string and throw 'Custom URL is required for custom network'
\* when it is undefined or the empty string.
C33_BaseUrls ==
  lastOp.op = "getBaseUrl" =>
    LET c == lastOp.call
        fixed == [api |-> [mainnet |-> "https://api.surflux.dev",
                           testnet |-> "https://testnet-api.surflux.dev"],
                  flux |-> [mainnet |-> "https://flux.surflux.dev",
                            testnet |-> "https://testnet-flux.surflux.dev"]]
    IN IF c.network \in {"mainnet", "testnet"}
       THEN c.result = [thrown |-> FALSE, value |-> fixed[c.kind][c.network]]
       ELSE IF c.rest = <<>> \/ c.rest = <<"">>
            THEN c.result = [thrown |-> TRUE,
                             value |-> "Custom URL is required for custom network"]
            ELSE c.result = [thrown |-> FALSE, value |-> c.rest[1]]

C33_Witness ==
  /\ lastOp.op = "getBaseUrl"
  /\ lastOp.call.kind = "flux"
  /\ lastOp.call.network = "testnet"
  /\ lastOp.call.rest = <<"https://ignored-url.com">>
  /\ lastOp.call.result.value = "https://testnet-flux.surflux.dev"

----------------------------------------------------------------------------
(* The persisted cursor, checked under SpecRewind *)

\* C34: every cache.set made by disconnect() writes a value that is at
\* least the cursor the cache held just before, with or without a
\* fromTimestampMs given to the constructor.
C34_CursorNeverDecreases ==
  [][(lastOp'.cacheSet /\ cache.has /\ ParseInt(cache.val) # NaN)
       => ParseInt(cache'.val) >= ParseInt(cache.val)]_vars

----------------------------------------------------------------------------
(* The connected flag, checked under SpecLifecycle *)

\* C35: connected is true only while eventSource is non-null and refers to
\* the transport whose open notification set the flag; the open
\* notification of a transport that was replaced or abandoned does not make
\* connected true.
C35_ConnectedImpliesHeld ==
  /\ isConnected =>
       /\ eventSource # Null
       /\ conns[eventSource].openReported
  /\ (lastOp.op = "open" /\ isConnected) => lastOp.c = eventSource

----------------------------------------------------------------------------
(* Completion of connect(), checked under SpecSessions *)

\* C36: on the native EventSource and on createEventSource alike, once the
\* transport that a connect() call created has opened, or has failed
\* before opening, the promise of that call is resolved or rejected, and a
\* transport that is open has made connected true.
C36_ConnectSettles ==
  \A c \in 1..(MaxConnects + 1) :
    (/\ c \in DOMAIN conns
     /\ conns[c].kind # "none"
     /\ conns[c].rs = "open" \/ conns[c].errBeforeOpen)
      ~> /\ c \in DOMAIN conns
         /\ conns[c].promise # "pending"
         /\ conns[c].rs = "open" => isConnected

----------------------------------------------------------------------------
(* Independence of subscriptions, checked under SpecDelivery *)

HandlersCalled(o) == {o.invoked[i].handler : i \in DOMAIN o.invoked}

\* C38: whatever other patterns are registered, one containing '*' next to
\* '(' or '[' included, every handler registered under the type of a
\* dispatched event, or under '*', is invoked for that event.
C38_SubscriptionsIndependent ==
  (lastOp.op = "message" /\ lastOp.passed) =>
    \A i \in DOMAIN subscriptions :
      subscriptions[i].pattern \in {lastOp.type, Star} =>
        \A j \in DOMAIN subscriptions[i].handlers :
          subscriptions[i].handlers[j] \in HandlersCalled(lastOp)

\* C39 (first half): every event with a non-empty type that passes the
\* timestamp filter raises latestTimestampMs to at least its timestamp,
\* also when no subscription matches it or a handler throws.
C39_CursorAdvances ==
  [][(HandledMessage(lastOp') /\ lastOp'.passed)
       => latestTimestampMs' =
            updateLatestTimestamp(lastOp'.ts, latestTimestampMs)]_vars

\* C39: in a session opened after the cursor was saved, an event whose
\* timestamp is at or below the saved cursor, and which no handler has
\* received before, is filtered out and no handler is called for it.
C39_UnheardEventsFiltered ==
  (/\ configFrom = Undefined
   /\ HandledMessage(lastOp)
   /\ lastOp.c = eventSource
   /\ conns[lastOp.c].afterSave
   /\ priorMax = Undefined
   /\ lastOp.ts # Undefined
   /\ cache.has
   /\ ParseInt(cache.val) # NaN
   /\ lastOp.ts <= ParseInt(cache.val))
    => (~lastOp.passed /\ lastOp.invoked = <<>>)

\* C40: a handler registered once through onEvent(name, handler) is called
\* exactly once for each dispatched event whose trailing short name is name.
C40_OnEventOnce ==
  (HandledMessage(lastOp) /\ lastOp.passed /\ ShortName(lastOp.type) = NameFoo)
    => \A handler \in RegistryHandlers :
         Occurrences(Get(subscriptions, NameFoo), handler) = 1
           => Occurrences(HandlersOf(lastOp.invoked), handler) = 1

\* C37: the handlers called for an event are exactly those matched in the
\* registry as it was when the event arrived, in that order: a handler that
\* an earlier handler of the same event unregisters is still called, and a
\* handler that a handler registers is not called for this event (it is in
\* the registry the next event is matched against).
C37_Snapshot ==
  [][(lastOp'.op = "message" /\ lastOp'.passed)
       => /\ lastOp'.invoked =
               handlerEntries(flavor, subscriptions, lastOp'.type)
          /\ ("hon" \in HandlersCalled(lastOp')
                /\ "hoff" \notin HandlersCalled(lastOp'))
               => Occurrences(HandlersOf(handlerEntries(
                                 flavor, subscriptions', lastOp'.type)), "h1")
                    > Occurrences(HandlersOf(lastOp'.invoked), "h1")]_vars

\* "h1" was called for the last event although "hoff", called before it,
\* had unregistered it
C37_Witness ==
  /\ lastOp.op = "message"
  /\ lastOp.passed
  /\ "h1" \in HandlersCalled(lastOp)
  /\ ~Registered(subscriptions, "h1")

\* C32: at most one handleEvent call of the client is in progress at any
\* moment; when the listener of message n starts and when a handler is
\* called for message n, the handleEvent calls of messages 1..n-1 have all
\* returned and none has begun for a later message.
C32_Sequential ==
  /\ Len(tasks.begun) <= 1
  /\ lastOp.op \in {"begin", "call"}
       => /\ tasks.finished \in {lastOp.call - 1, lastOp.call}
          /\ \A k \in DOMAIN tasks.begun : tasks.begun[k].n = lastOp.call

\* a handler has just been called for the second message while a third one,
\* already arrived, waits for its listener
C32_Witness ==
  /\ lastOp.op = "call"
  /\ lastOp.call = 2
  /\ tasks.queued # <<>>
  /\ tasks.finished = 1
  /\ Len(tasks.begun) = 1

====
